---------------------------- MODULE Spec2Model ----------------------------
(***************************************************************************)
(* Uniprocessor real-time scheduling simulator: the engine Scheduler       *)
(* (constructor, calculateHyperperiod, run), the four priority policies    *)
(* (RateMonotonic, DeadlineMonotonic, EDF, LeastSlackTime) and the two     *)
(* aperiodic servers (PollingServer, DeferrableServer).                    *)
(*                                                                         *)
(* The engine exists in a tick-scaled build (SERVER_CAPACITY 20,           *)
(* SERVER_PERIOD 50, limit 10000, buffer 200) and in an unscaled build     *)
(* (2, 5, 1000, 20) with the same tick loop.  The model carries the        *)
(* constants and the engine of the unscaled build, the one the documented  *)
(* scenarios use.                                                          *)
(*                                                                         *)
(* One iteration of the loop of Scheduler::run is one step: ServerServes,   *)
(* ServerYields or Dispatch, by the branch the scheduling decision takes.  *)
(* Each is the whole iteration: expired-server cleanup, arrivals, priority *)
(* sort, decision, execution and deadline check.  main() is around it:     *)
(* MainRejects for an input without tasks, MainReturns after the run.      *)
(*                                                                         *)
(* Specifications: Spec (up to two periodic lines, one aperiodic line),    *)
(* QueueSpec (several aperiodic lines, any policy name), ScenarioSpec (the *)
(* documented scenarios as input files), ServerSpec (periods longer than   *)
(* the server's), TerminationSpec (the loop under weak fairness),          *)
(* ArrivalSpec (periodic lines with release offsets), ReaderSpec           *)
(* (readInputFile alone), SortSpec (pickNextJob alone) and HorizonSpec     *)
(* (calculateHyperperiod alone).                                           *)
(***************************************************************************)
EXTENDS Integers, Sequences, FiniteSets

VARIABLES
    inputFile,       \* the lines of the input file, <<>> where the tasks are given parsed
    periodicTasks,   \* std::vector<Task>, the server task appended by the constructor
    aperiodicTasks,  \* std::vector<Task>
    algorithm,       \* the ISchedulingAlgorithm passed to the constructor
    serverPolicy,    \* std::string
    hyperperiod,     \* int, set once by the constructor
    t,               \* the loop variable of run()
    jobCounter,      \* the local jobCounter of run()
    readyQueue,      \* std::vector<Job*>, as the sequence of the jobs pointed to
    aperiodicQueue,  \* std::vector<Job*>
    history,         \* std::vector<TimelineEvent>
    pc,              \* position in run(): "run" (in the loop), "done", "aborted";
                     \* "noinput" when main() found no task and built no Scheduler
    exitStatus,      \* what main() returned, -1 while the process runs
    files,           \* the output files written by exportToFile
    jobs,            \* history variable: every Job constructed, by jobId
    picks,           \* history variable: the ticks at which the server job was picked
    atPick           \* history variable: the queues as the last pick found them

vars == <<inputFile, periodicTasks, aperiodicTasks, algorithm, serverPolicy, hyperperiod, t,
          jobCounter, readyQueue, aperiodicQueue, history, pc, exitStatus, files,
          jobs, picks, atPick>>

inputs == <<inputFile, periodicTasks, aperiodicTasks, algorithm, serverPolicy, hyperperiod>>

---------------------------------------------------------------------------
(* Engine constants *)

SERVER_CAPACITY == 2
SERVER_PERIOD == 5
SERVER_TASK_ID == 999
SAFETY_LIMIT == 1000
BUFFER == 20

(* Bounds of the explored inputs *)

MaxPeriod == 3       \* periods of the periodic lines are 2..MaxPeriod
MaxWcet == 2         \* execution times of the periodic lines are 1..MaxWcet
MaxARelease == 2     \* release of the aperiodic line is 0..MaxARelease
MaxAWcet == 3        \* its execution time is 1..MaxAWcet

---------------------------------------------------------------------------
(* Task.h, Job.h *)

Task(id, type, r, c, p, d) ==
    [id |-> id, type |-> type, releaseTime |-> r, computationTime |-> c,
     period |-> p, relativeDeadline |-> d]

Job(jId, task, arrival) ==
    [jobId |-> jId, task |-> task, arrivalTime |-> arrival,
     absoluteDeadline |-> arrival + task.relativeDeadline,
     remainingExecutionTime |-> task.computationTime,
     startTime |-> -1, finishTime |-> -1]

getSlack(j, currentTime) ==
    (j.absoluteDeadline - currentTime) - j.remainingExecutionTime

TimelineEvent(time, jobId, taskId, type) ==
    [time |-> time, jobId |-> jobId, taskId |-> taskId, type |-> type]

---------------------------------------------------------------------------
(* Sequence helpers *)

RemoveAt(q, i) == [k \in 1..(Len(q) - 1) |-> IF k < i THEN q[k] ELSE q[k + 1]]

---------------------------------------------------------------------------
(* Scheduler::gcd, Scheduler::calculateHyperperiod *)

RECURSIVE gcd(_, _)
gcd(a, b) == IF b = 0 THEN a ELSE gcd(b, a % b)

RECURSIVE PeriodicLcm(_, _, _)
PeriodicLcm(tasks, i, h) ==
    IF i > Len(tasks) THEN h
    ELSE IF tasks[i].period > 0
         THEN LET h2 == (h \div gcd(h, tasks[i].period)) * tasks[i].period
              IN  IF h2 > SAFETY_LIMIT THEN SAFETY_LIMIT
                  ELSE PeriodicLcm(tasks, i + 1, h2)
         ELSE PeriodicLcm(tasks, i + 1, h)

RECURSIVE MaxArrival(_, _, _)
MaxArrival(tasks, i, m) ==
    IF i > Len(tasks) THEN m
    ELSE LET neededTime == tasks[i].releaseTime + tasks[i].computationTime + BUFFER
         IN  MaxArrival(tasks, i + 1, IF neededTime > m THEN neededTime ELSE m)

(* mutant: the horizon is extended by one multiple only *)
ExtendHOnce(h, extendedH, maxArrival) ==
    IF extendedH < maxArrival /\ extendedH < SAFETY_LIMIT
    THEN extendedH + h
    ELSE extendedH

(* while (extendedH < maxArrival && extendedH < SAFETY_LIMIT) extendedH += h: *)
(* h >= 1 is added until the condition fails, the first time after k rounds *)
ExtendH(h, extendedH, maxArrival) ==
    LET Goes(e) == e < maxArrival /\ e < SAFETY_LIMIT
        k == CHOOSE n \in 0..(SAFETY_LIMIT \div h) :
               /\ ~Goes(extendedH + n * h)
               /\ \A m \in 0..(n - 1) : Goes(extendedH + m * h)
    IN  extendedH + k * h

calculateHyperperiod(pTasks, aTasks) ==
    LET h == PeriodicLcm(pTasks, 1, 1)
        maxArrival == MaxArrival(aTasks, 1, 0)
        h2 == IF h < maxArrival THEN ExtendH(h, h, maxArrival) ELSE h
    IN  IF h2 > SAFETY_LIMIT THEN SAFETY_LIMIT ELSE h2

---------------------------------------------------------------------------
(* Scheduler::Scheduler *)

serverAlgo ==
    IF serverPolicy = "Poller" THEN "PollingServer"
    ELSE IF serverPolicy = "Deferrable" THEN "DeferrableServer"
    ELSE "nullptr"

serverTaskDefinition ==
    Task(SERVER_TASK_ID, "Periodic", 0, SERVER_CAPACITY, SERVER_PERIOD, SERVER_PERIOD)

(* mutant: every policy name but "Background" gets a server task *)
SynthesizesServerUnlessBackground(policy) == policy # "Background"

(* the policy names for which the constructor appends the server task *)
SynthesizesServer(policy) == policy \in {"Poller", "Deferrable"}

Construct(pTasks, aTasks, algo, policy) ==
    /\ aperiodicTasks = aTasks
    /\ algorithm = algo
    /\ serverPolicy = policy
    /\ hyperperiod = calculateHyperperiod(pTasks, aTasks)
    /\ periodicTasks = IF SynthesizesServer(policy)
                       THEN Append(pTasks, serverTaskDefinition)
                       ELSE pTasks
    /\ t = 0
    /\ jobCounter = 1
    /\ readyQueue = <<>>
    /\ aperiodicQueue = <<>>
    /\ history = <<>>
    /\ pc = "run"
    /\ exitStatus = -1
    /\ files = {}
    /\ jobs = <<>>
    /\ picks = <<>>
    /\ atPick = [t |-> -1, rq |-> <<>>, aq |-> <<>>, histLen |-> 0]

---------------------------------------------------------------------------
(* The priority policies: the comparator each passes to std::sort *)

(* mutant: no tie-break on the job id *)
RateMonotonicLessNoTieBreak(a, b) == a.task.period < b.task.period

(* mutant: the longer period goes first *)
RateMonotonicLessLongestFirst(a, b) ==
    IF a.task.period # b.task.period
    THEN a.task.period > b.task.period
    ELSE a.jobId < b.jobId

RateMonotonicLess(a, b) ==
    IF a.task.period # b.task.period
    THEN a.task.period < b.task.period
    ELSE a.jobId < b.jobId

DeadlineMonotonicLess(a, b) ==
    IF a.task.relativeDeadline # b.task.relativeDeadline
    THEN a.task.relativeDeadline < b.task.relativeDeadline
    ELSE a.jobId < b.jobId

(* mutant: EDF compares the relative deadlines, as DeadlineMonotonic does *)
EDFLessByRelativeDeadline(a, b) ==
    IF a.task.relativeDeadline # b.task.relativeDeadline
    THEN a.task.relativeDeadline < b.task.relativeDeadline
    ELSE a.jobId < b.jobId

EDFLess(a, b) ==
    IF a.absoluteDeadline # b.absoluteDeadline
    THEN a.absoluteDeadline < b.absoluteDeadline
    ELSE a.jobId < b.jobId

LeastSlackTimeLess(a, b, currentTime) ==
    LET slackA == getSlack(a, currentTime)
        slackB == getSlack(b, currentTime)
    IN  IF slackA # slackB THEN slackA < slackB ELSE a.jobId < b.jobId

Less(algo, a, b, currentTime) ==
    CASE algo = "RM"  -> RateMonotonicLess(a, b)
      [] algo = "DM"  -> DeadlineMonotonicLess(a, b)
      [] algo = "EDF" -> EDFLess(a, b)
      [] algo = "LST" -> LeastSlackTimeLess(a, b, currentTime)

(* std::sort: every order of the elements in which no element is less than *)
(* one placed before it; which of them is left is unspecified.             *)
RECURSIVE StdSort(_, _, _)
StdSort(algo, q, currentTime) ==
    IF q = <<>> THEN {<<>>}
    ELSE LET minimal == {i \in 1..Len(q) :
                           \A k \in 1..Len(q) : ~Less(algo, q[k], q[i], currentTime)}
         IN  UNION {{<<q[i]>> \o rest :
                       rest \in StdSort(algo, RemoveAt(q, i), currentTime)} :
                    i \in minimal}

(* pickNextJob: the orders it may leave readyQueue in (front() is returned) *)
pickNextJob(algo, queue, currentTime) ==
    IF queue = <<>> THEN {<<>>} ELSE StdSort(algo, queue, currentTime)

---------------------------------------------------------------------------
(* PollingServer::run, DeferrableServer::run on the tick state              *)
(* [rq, aq, hist]; the server job is rq[srv]                                *)

(* mutant: the aperiodic job is served and the server budget is not debited *)
ServeHeadNoDebit(s, srv, currentTime, label) ==
    LET aJob == s.aq[1]
        h1 == Append(s.hist, TimelineEvent(currentTime, aJob.jobId, aJob.task.id, label))
        aRem == aJob.remainingExecutionTime - 1
    IN  IF aRem <= 0
        THEN [s EXCEPT !.aq = Tail(@),
                       !.hist = Append(h1, TimelineEvent(currentTime + 1, aJob.jobId,
                                                         aJob.task.id, "AperiodicFinish"))]
        ELSE [s EXCEPT !.aq[1].remainingExecutionTime = aRem, !.hist = h1]

ServeHead(s, srv, currentTime, label) ==
    LET aJob == s.aq[1]
        h1 == Append(s.hist, TimelineEvent(currentTime, aJob.jobId, aJob.task.id, label))
        aRem == aJob.remainingExecutionTime - 1
        rq1 == [s.rq EXCEPT ![srv].remainingExecutionTime = @ - 1]
    IN  IF aRem <= 0
        THEN [s EXCEPT !.rq = rq1, !.aq = Tail(@),
                       !.hist = Append(h1, TimelineEvent(currentTime + 1, aJob.jobId,
                                                         aJob.task.id, "AperiodicFinish"))]
        ELSE [s EXCEPT !.rq = rq1, !.aq[1].remainingExecutionTime = aRem, !.hist = h1]

PollingServerRun(s, srv, currentTime) ==
    IF s.aq # <<>>
    THEN ServeHead(s, srv, currentTime, "ServerExec")
    ELSE [s EXCEPT !.rq[srv].remainingExecutionTime = 0]

DeferrableServerRun(s, srv, currentTime) ==
    IF s.aq # <<>>
    THEN ServeHead(s, srv, currentTime, "ServerExec(DS)")
    ELSE s

ServerAlgoRun(s, srv, currentTime) ==
    IF serverAlgo = "PollingServer"
    THEN PollingServerRun(s, srv, currentTime)
    ELSE DeferrableServerRun(s, srv, currentTime)

---------------------------------------------------------------------------
(* Scheduler::run, top of the loop body: cleanup, arrivals, sort *)

(* mutant: expired server jobs are left in the queue *)
CleanupKeepsExpired(q, now) == q

Cleanup(q, now) ==
    SelectSeq(q, LAMBDA j : ~(j.task.id = SERVER_TASK_ID /\ j.absoluteDeadline <= now))

(* mutant: the arrival test counts the periods from tick 0, not from the    *)
(* release of the task                                                      *)
ArrivesIgnoringRelease(task, now) == now % task.period = 0

Arrives(task, now) ==
    now >= task.releaseTime /\ (now - task.releaseTime) % task.period = 0

RECURSIVE PeriodicArrivals(_, _, _, _, _)
PeriodicArrivals(tasks, i, q, jc, now) ==
    IF i > Len(tasks) THEN [rq |-> q, jc |-> jc]
    ELSE IF Arrives(tasks[i], now)
         THEN PeriodicArrivals(tasks, i + 1, Append(q, Job(jc, tasks[i], now)), jc + 1, now)
         ELSE PeriodicArrivals(tasks, i + 1, q, jc, now)

RECURSIVE AperiodicArrivals(_, _, _, _, _, _)
AperiodicArrivals(tasks, i, q, jc, hist, now) ==
    IF i > Len(tasks) THEN [aq |-> q, jc |-> jc, hist |-> hist]
    ELSE IF now = tasks[i].releaseTime
         THEN AperiodicArrivals(tasks, i + 1, Append(q, Job(jc, tasks[i], now)), jc + 1,
                                Append(hist, TimelineEvent(now, jc, tasks[i].id,
                                                           "AperiodicArrival")), now)
         ELSE AperiodicArrivals(tasks, i + 1, q, jc, hist, now)

(* the states the loop may be in once pickNextJob has returned: the tick    *)
(* state [rq, aq, hist], the job counter and the jobs constructed this tick *)
AtPick ==
    LET cleaned == Cleanup(readyQueue, t)
        pa == PeriodicArrivals(periodicTasks, 1, cleaned, jobCounter, t)
        aa == AperiodicArrivals(aperiodicTasks, 1, aperiodicQueue, pa.jc, history, t)
    IN  {[rq |-> sorted, aq |-> aa.aq, hist |-> aa.hist, jc |-> aa.jc,
          created |-> SubSeq(pa.rq, Len(cleaned) + 1, Len(pa.rq))
                      \o SubSeq(aa.aq, Len(aperiodicQueue) + 1, Len(aa.aq))] :
           sorted \in pickNextJob(algorithm, pa.rq, t)}

---------------------------------------------------------------------------
(* Scheduler::run, the rest of the loop body, on the tick state [rq, aq, hist] *)

(* mutant: the Finish event is stamped one tick late *)
FinishTimeLate(now) == now + 2

FinishTime(now) == now + 1

(* mutant: no background slot in the tick the aperiodic job arrives *)
BackgroundExecutionAfterArrivalTick(s, now) ==
    IF s.rq = <<>> /\ s.aq # <<>> /\ s.aq[1].arrivalTime < now
    THEN LET aJob == s.aq[1]
             h1 == Append(s.hist, TimelineEvent(now, aJob.jobId, aJob.task.id,
                                                "BackgroundRun"))
         IN  IF aJob.remainingExecutionTime - 1 <= 0
             THEN [s EXCEPT !.aq = Tail(@), !.hist = h1]
             ELSE [s EXCEPT !.aq[1].remainingExecutionTime = @ - 1, !.hist = h1]
    ELSE [s EXCEPT !.hist = Append(@, TimelineEvent(now, -1, -1, "Idle"))]

(* mutant: the background slot goes to the newest pending aperiodic job *)
BackgroundExecutionServesLast(s, now) ==
    IF s.rq = <<>> /\ s.aq # <<>>
    THEN LET n == Len(s.aq)
             aJob == s.aq[n]
             h1 == Append(s.hist, TimelineEvent(now, aJob.jobId, aJob.task.id,
                                                "BackgroundRun"))
         IN  IF aJob.remainingExecutionTime - 1 <= 0
             THEN [s EXCEPT !.aq = RemoveAt(@, n), !.hist = h1]
             ELSE [s EXCEPT !.aq[n].remainingExecutionTime = @ - 1, !.hist = h1]
    ELSE [s EXCEPT !.hist = Append(@, TimelineEvent(now, -1, -1, "Idle"))]

BackgroundExecution(s, now) ==
    IF s.rq = <<>> /\ s.aq # <<>>
    THEN LET aJob == s.aq[1]
             h1 == Append(s.hist, TimelineEvent(now, aJob.jobId, aJob.task.id,
                                                "BackgroundRun"))
         IN  IF aJob.remainingExecutionTime - 1 <= 0
             THEN [s EXCEPT !.aq = Tail(@), !.hist = h1]
             ELSE [s EXCEPT !.aq[1].remainingExecutionTime = @ - 1, !.hist = h1]
    ELSE [s EXCEPT !.hist = Append(@, TimelineEvent(now, -1, -1, "Idle"))]

(* mutant: pending aperiodic work takes the slot ahead of the ready job *)
NormalExecutionAperiodicFirst(s, cur, now) ==
    IF s.aq # <<>>
    THEN LET aJob == s.aq[1]
             h1 == Append(s.hist, TimelineEvent(now, aJob.jobId, aJob.task.id,
                                                "BackgroundRun"))
         IN  IF aJob.remainingExecutionTime - 1 <= 0
             THEN [s EXCEPT !.aq = Tail(@), !.hist = h1]
             ELSE [s EXCEPT !.aq[1].remainingExecutionTime = @ - 1, !.hist = h1]
    ELSE IF cur # 0 /\ s.rq[cur].remainingExecutionTime > 0
    THEN LET j == s.rq[cur]
             started == IF j.startTime = -1 THEN now ELSE j.startTime
             h1 == Append(s.hist, TimelineEvent(now, j.jobId, j.task.id, "Running"))
             rem == j.remainingExecutionTime - 1
         IN  IF rem <= 0
             THEN [s EXCEPT !.rq = RemoveAt(@, cur),
                            !.hist = Append(h1, TimelineEvent(FinishTime(now), j.jobId,
                                                              j.task.id, "Finish"))]
             ELSE [s EXCEPT !.rq[cur] = [j EXCEPT !.startTime = started,
                                                  !.remainingExecutionTime = rem],
                            !.hist = h1]
    ELSE [s EXCEPT !.hist = Append(@, TimelineEvent(now, -1, -1, "Idle"))]

(* cur is the index in rq of currentJob, 0 for nullptr *)
NormalExecution(s, cur, now) ==
    IF cur # 0 /\ s.rq[cur].remainingExecutionTime > 0
    THEN LET j == s.rq[cur]
             started == IF j.startTime = -1 THEN now ELSE j.startTime
             h1 == Append(s.hist, TimelineEvent(now, j.jobId, j.task.id, "Running"))
             rem == j.remainingExecutionTime - 1
         IN  IF rem <= 0
             THEN [s EXCEPT !.rq = RemoveAt(@, cur),
                            !.hist = Append(h1, TimelineEvent(FinishTime(now), j.jobId,
                                                              j.task.id, "Finish"))]
             ELSE [s EXCEPT !.rq[cur] = [j EXCEPT !.startTime = started,
                                                  !.remainingExecutionTime = rem],
                            !.hist = h1]
    ELSE BackgroundExecution(s, now)

(* mutant: the check sees a deadline one tick after it has passed *)
DeadlineMissedLate(job, now) == now > job.absoluteDeadline

DeadlineMissed(job, now) == now + 1 > job.absoluteDeadline

(* mutant: a server job that holds budget at the end of its window is a     *)
(* deadline miss like any other                                             *)
RECURSIVE DeadlineCheckCountsServer(_, _, _)
DeadlineCheckCountsServer(rq, i, now) ==
    IF i > Len(rq) THEN [rq |-> rq, miss |-> 0]
    ELSE IF rq[i].task.id = SERVER_TASK_ID
         THEN IF now + 1 >= rq[i].absoluteDeadline
              THEN [rq |-> rq, miss |-> i]
              ELSE DeadlineCheckCountsServer(rq, i + 1, now)
         ELSE IF DeadlineMissed(rq[i], now)
              THEN [rq |-> rq, miss |-> i]
              ELSE DeadlineCheckCountsServer(rq, i + 1, now)

(* The deadline check walks the queue: an expired server job met on the way *)
(* is erased, the first ordinary job past its deadline ends the walk.       *)
(* [rq, miss]: the queue as the walk leaves it and the index of that job,   *)
(* 0 when the check passes.  (The tick-scaled build skips server jobs        *)
(* without erasing them.)                                                    *)
RECURSIVE DeadlineCheck(_, _, _)
DeadlineCheck(rq, i, now) ==
    IF i > Len(rq) THEN [rq |-> rq, miss |-> 0]
    ELSE IF rq[i].task.id = SERVER_TASK_ID
         THEN IF now + 1 > rq[i].absoluteDeadline
              THEN DeadlineCheck(RemoveAt(rq, i), i, now)
              ELSE DeadlineCheck(rq, i + 1, now)
         ELSE IF DeadlineMissed(rq[i], now)
              THEN [rq |-> rq, miss |-> i]
              ELSE DeadlineCheck(rq, i + 1, now)

MissEvent(job, now) == TimelineEvent(now + 1, job.jobId, job.task.id, "DEADLINE_MISS")

(* mutant: the deadline check logs the miss and the loop goes on *)
EndOfTickContinues(p, s) ==
    LET dc == DeadlineCheck(s.rq, 1, t)
    IN  /\ readyQueue' = dc.rq
        /\ aperiodicQueue' = s.aq
        /\ jobCounter' = p.jc
        /\ jobs' = jobs \o p.created
        /\ atPick' = [t |-> t, rq |-> p.rq, aq |-> p.aq, histLen |-> Len(p.hist)]
        /\ history' = IF dc.miss # 0
                      THEN Append(s.hist, MissEvent(dc.rq[dc.miss], t))
                      ELSE s.hist
        /\ pc' = "run"
        /\ t' = t + 1
        /\ UNCHANGED <<inputs, exitStatus, files>>

(* p is the state at the pick, s the tick state once the tick has executed *)
EndOfTick(p, s) ==
    LET dc == DeadlineCheck(s.rq, 1, t)
    IN  /\ readyQueue' = dc.rq
        /\ aperiodicQueue' = s.aq
        /\ jobCounter' = p.jc
        /\ jobs' = jobs \o p.created
        /\ atPick' = [t |-> t, rq |-> p.rq, aq |-> p.aq, histLen |-> Len(p.hist)]
        /\ IF dc.miss # 0
           THEN /\ history' = Append(s.hist, MissEvent(dc.rq[dc.miss], t))
                /\ files' = files \cup {"output_ABORTED.txt"}
                /\ pc' = "aborted"
                /\ t' = t
           ELSE /\ history' = s.hist
                /\ files' = files
                /\ pc' = "run"
                /\ t' = t + 1
        /\ UNCHANGED <<inputs, exitStatus>>

ServerPicked(p) ==
    /\ p.rq # <<>>
    /\ p.rq[1].task.id = SERVER_TASK_ID
    /\ serverAlgo # "nullptr"

ServerPick(now, work) == [time |-> now, hasWork |-> work]

(* mutant: no jump to end_of_tick after the server has served *)
ServeAndRetireFallsThrough(p, now) ==
    LET s1 == ServerAlgoRun(p, 1, now)
        s2 == IF s1.rq[1].remainingExecutionTime <= 0
              THEN [s1 EXCEPT !.rq = RemoveAt(@, 1)]
              ELSE s1
    IN  NormalExecution(s2, IF s2.rq # <<>> THEN 1 ELSE 0, now)

(* mutant: the exhausted server job stays in the ready queue *)
ServeAndKeepExhausted(p, now) == ServerAlgoRun(p, 1, now)

(* the server job is picked and there is aperiodic work *)
ServeAndRetire(p, now) ==
    LET s1 == ServerAlgoRun(p, 1, now)
    IN  IF s1.rq[1].remainingExecutionTime <= 0
        THEN [s1 EXCEPT !.rq = RemoveAt(@, 1)]
        ELSE s1

ServerServes ==
    /\ pc = "run"
    /\ t < hyperperiod
    /\ \E p \in AtPick :
         /\ ServerPicked(p)
         /\ p.aq # <<>>
         /\ EndOfTick(p, ServeAndRetire(p, t))
    /\ picks' = Append(picks, ServerPick(t, TRUE))

(* the server job is picked and the aperiodic queue is empty *)
(* mutant: the Polling server keeps its job when it yields *)
YieldPollerKeepsBudget(p, now) ==
    NormalExecution(p, IF Len(p.rq) > 1 THEN 2 ELSE 0, now)

YieldPoller(p, now) ==
    LET s1 == [p EXCEPT !.rq = RemoveAt(@, 1)]
    IN  NormalExecution(s1, IF s1.rq # <<>> THEN 1 ELSE 0, now)

(* mutant: the yielding Deferrable server loses its job as the Poller does *)
YieldDeferrableDropsBudget(p, now) == YieldPoller(p, now)

(* mutant: the yielding Deferrable server hands the slot to readyQueue[0] *)
YieldDeferrableRunsHead(p, now) ==
    NormalExecution(p, 1, now)

YieldDeferrable(p, now) ==
    NormalExecution(p, IF Len(p.rq) > 1 THEN 2 ELSE 0, now)

ServerYields ==
    /\ pc = "run"
    /\ t < hyperperiod
    /\ \E p \in AtPick :
         /\ ServerPicked(p)
         /\ p.aq = <<>>
         /\ EndOfTick(p, IF serverPolicy = "Poller"
                         THEN YieldPoller(p, t)
                         ELSE YieldDeferrable(p, t))
    /\ picks' = Append(picks, ServerPick(t, FALSE))

(* the head is an ordinary job, or the queue is empty *)
Dispatch ==
    /\ pc = "run"
    /\ t < hyperperiod
    /\ \E p \in AtPick :
         /\ ~ServerPicked(p)
         /\ EndOfTick(p, NormalExecution(p, IF p.rq # <<>> THEN 1 ELSE 0, t))
    /\ UNCHANGED picks

(* the loop condition fails: run() returns *)
LoopExit ==
    /\ pc = "run"
    /\ t >= hyperperiod
    /\ pc' = "done"
    /\ UNCHANGED <<inputs, t, jobCounter, readyQueue, aperiodicQueue, history,
                   exitStatus, files, jobs, picks, atPick>>

---------------------------------------------------------------------------
(* main *)

(* what main() leaves of the engine when the input file holds no task *)
NoScheduler ==
    /\ periodicTasks = <<>>
    /\ aperiodicTasks = <<>>
    /\ algorithm = "none"
    /\ serverPolicy = "Background"
    /\ hyperperiod = 0
    /\ t = 0
    /\ jobCounter = 1
    /\ readyQueue = <<>>
    /\ aperiodicQueue = <<>>
    /\ history = <<>>
    /\ pc = "noinput"
    /\ exitStatus = -1
    /\ files = {}
    /\ jobs = <<>>
    /\ picks = <<>>
    /\ atPick = [t |-> -1, rq |-> <<>>, aq |-> <<>>, histLen |-> 0]

(* the status main() returns after scheduler.run() *)
MainReturnStatus == 0

(* scheduler.run() has returned: main() exports output.txt and returns *)
MainReturns ==
    /\ pc \in {"done", "aborted"}
    /\ exitStatus = -1
    /\ files' = files \cup {"output.txt"}
    /\ exitStatus' = MainReturnStatus
    /\ UNCHANGED <<inputs, t, jobCounter, readyQueue, aperiodicQueue, history, pc,
                   jobs, picks, atPick>>

(* no task was parsed: main() returns 1 before any Scheduler exists *)
MainRejects ==
    /\ pc = "noinput"
    /\ exitStatus = -1
    /\ exitStatus' = 1
    /\ UNCHANGED <<inputs, t, jobCounter, readyQueue, aperiodicQueue, history, pc,
                   files, jobs, picks, atPick>>

---------------------------------------------------------------------------
(* The inputs explored *)

Algorithms == {"RM", "DM", "EDF", "LST"}
Policies == {"Background", "Poller", "Deferrable"}

(* a line "P e p", in ticks as the parser hands it over: release 0,        *)
(* deadline = period                                                        *)
PeriodicLines ==
    {Task(0, "Periodic", 0, e, p, p) : e \in 1..MaxWcet, p \in 2..MaxPeriod} \
    {l \in {Task(0, "Periodic", 0, e, p, p) : e \in 1..MaxWcet, p \in 2..MaxPeriod} :
        l.computationTime > l.period}

(* a line "A r e", in ticks *)
AperiodicLines ==
    {Task(0, "Aperiodic", r, e, 0, 0) : r \in 0..MaxARelease, e \in 1..MaxAWcet}

PeriodicInputs ==
    {<<>>} \cup {<<a>> : a \in PeriodicLines}
           \cup {<<a, b>> : a \in PeriodicLines, b \in PeriodicLines}

AperiodicInputs == {<<>>} \cup {<<a>> : a \in AperiodicLines}

(* the parser numbers the lines of the input file from 1 *)
Numbered(f, base) == [i \in DOMAIN f |-> [f[i] EXCEPT !.id = base + i]]

(* main(): an input file without tasks is rejected, any other is handed to *)
(* a Scheduler with the chosen algorithm                                   *)
Start(pTasks, aTasks, algo, policy) ==
    IF Len(pTasks) + Len(aTasks) = 0
    THEN NoScheduler
    ELSE Construct(pTasks, aTasks, algo, policy)

Main(pf, af, algo, policy) ==
    Start(Numbered(pf, 0), Numbered(af, Len(pf)), algo, policy)

Init ==
    \E pf \in PeriodicInputs, af \in AperiodicInputs :
      \E algo \in Algorithms, policy \in Policies :
        /\ inputFile = <<>>
        /\ Main(pf, af, algo, policy)

(* Scheduler::run: one iteration of the loop, or its exit *)
run == ServerServes \/ ServerYields \/ Dispatch \/ LoopExit

Next == run \/ MainReturns \/ MainRejects

Spec == Init /\ [][Next]_vars

---------------------------------------------------------------------------
(* Inputs with several aperiodic lines and any policy name: at most one     *)
(* periodic line, at most two aperiodic lines.                              *)

MaxQRelease == 1     \* releases of these aperiodic lines are 0..MaxQRelease
MaxQWcet == 2        \* execution times of these lines are 1..MaxQWcet

QPeriods == {2, 3}

(* the policy string is free text for the constructor *)
PolicyNames == Policies \cup {"Sporadic"}

QPeriodicLines ==
    {l \in {Task(0, "Periodic", 0, e, p, p) : e \in 1..MaxQWcet, p \in QPeriods} :
        l.computationTime <= l.period}

QPeriodicInputs == {<<>>} \cup {<<a>> : a \in QPeriodicLines}

QAperiodicLines ==
    {Task(0, "Aperiodic", r, e, 0, 0) : r \in 0..MaxQRelease, e \in 1..MaxQWcet}

QAperiodicInputs ==
    {<<>>} \cup {<<a>> : a \in QAperiodicLines}
          \cup {<<a, b>> : a \in QAperiodicLines, b \in QAperiodicLines}

QueueInit ==
    \E pf \in QPeriodicInputs, af \in QAperiodicInputs :
      \E algo \in Algorithms, policy \in PolicyNames :
        /\ inputFile = <<>>
        /\ Main(pf, af, algo, policy)

QueueSpec == QueueInit /\ [][Next]_vars

---------------------------------------------------------------------------
(* Inputs whose periodic tasks have a period longer than SERVER_PERIOD, so  *)
(* that the server job comes first under every policy while other jobs are  *)
(* ready: at most two periodic lines, at most one aperiodic line, a server. *)

LongPeriods == {6}

LongPeriodicLines ==
    {Task(0, "Periodic", 0, e, p, p) : e \in 1..MaxWcet, p \in LongPeriods}

LongPeriodicInputs ==
    {<<>>} \cup {<<a>> : a \in LongPeriodicLines}
          \cup {<<a, b>> : a \in LongPeriodicLines, b \in LongPeriodicLines}

ServerPolicies == {"Poller", "Deferrable"}

ServerInit ==
    \E pf \in LongPeriodicInputs, af \in AperiodicInputs :
      \E algo \in Algorithms, policy \in ServerPolicies :
        /\ inputFile = <<>>
        /\ Main(pf, af, algo, policy)

ServerSpec == ServerInit /\ [][Next]_vars

---------------------------------------------------------------------------
(* FileReader::readInputFile.  A line is [kind, nums, tag]: its first       *)
(* character, the numbers that follow and the text after them.  A number of *)
(* the file is kept with two decimals: the integer h stands for h/100.      *)

SCALE_FACTOR == 10

Line(kind, nums, tag) == [kind |-> kind, nums |-> nums, tag |-> tag]

(* (int)std::round(x * SCALE_FACTOR): the nearest tick, halves away from 0 *)
ScaleAndRound(h) ==
    IF h >= 0
    THEN (h * SCALE_FACTOR + 50) \div 100
    ELSE -((50 - h * SCALE_FACTOR) \div 100)

(* the mapping logic with a "D" line given the shapes of a "P" line *)
MappingLogicShapesOfP(type, hasExplicitDeadline, n) ==
    IF Len(n) = 2
    THEN IF type = "Aperiodic"
         THEN <<n[1], n[2], 0, 0>>
         ELSE <<0, n[1], n[2], n[2]>>
    ELSE IF Len(n) = 3
    THEN <<n[1], n[2], n[3], n[3]>>
    ELSE IF Len(n) >= 4
    THEN <<n[1], n[2], n[3], n[4]>>
    ELSE <<0, 0, 0, 0>>

(* <<r_d, e_d, p_d, d_d>>, by the count of the numbers of the line *)
MappingLogic(type, hasExplicitDeadline, n) ==
    IF Len(n) = 2
    THEN IF type = "Aperiodic"
         THEN <<n[1], n[2], 0, 0>>
         ELSE <<0, n[1], n[2], n[2]>>
    ELSE IF Len(n) = 3
    THEN IF hasExplicitDeadline
         THEN <<0, n[1], n[2], n[3]>>
         ELSE <<n[1], n[2], n[3], n[3]>>
    ELSE IF Len(n) >= 4
    THEN <<n[1], n[2], n[3], n[4]>>
    ELSE <<0, 0, 0, 0>>

(* the lines that define a task; any other line is skipped *)
IsTaskLine(line) == line.kind \in {"P", "D", "A"}

(* the task of a line: "D" is periodic with an explicit deadline *)
ParseLine(line, id) ==
    LET type == IF line.kind = "A" THEN "Aperiodic" ELSE "Periodic"
        hasExplicitDeadline == line.kind = "D"
        m == MappingLogic(type, hasExplicitDeadline, line.nums)
    IN  Task(id, type, ScaleAndRound(m[1]), ScaleAndRound(m[2]),
             ScaleAndRound(m[3]), ScaleAndRound(m[4]))

(* the policy after a line: only an aperiodic line's tag is looked at *)
TagPolicy(line, policy) ==
    IF line.kind # "A" THEN policy
    ELSE IF line.tag = "Poller" THEN "Poller"
    ELSE IF line.tag = "Deferrable" THEN "Deferrable"
    ELSE policy

(* the loop over the lines; taskIdCounter is one more than the tasks read *)
RECURSIVE ReadLines(_, _, _)
ReadLines(file, i, result) ==
    IF i > Len(file) THEN result
    ELSE IF ~IsTaskLine(file[i]) THEN ReadLines(file, i + 1, result)
    ELSE LET taskIdCounter == Len(result.periodicTasks) + Len(result.aperiodicTasks) + 1
             task == ParseLine(file[i], taskIdCounter)
             pol == TagPolicy(file[i], result.serverPolicy)
         IN  ReadLines(file, i + 1,
                 IF task.type = "Aperiodic"
                 THEN [result EXCEPT !.aperiodicTasks = Append(@, task),
                                     !.serverPolicy = pol]
                 ELSE [result EXCEPT !.periodicTasks = Append(@, task),
                                     !.serverPolicy = pol])

readInputFile(file) ==
    ReadLines(file, 1, [periodicTasks |-> <<>>, aperiodicTasks |-> <<>>,
                        serverPolicy |-> "Background"])

---------------------------------------------------------------------------
(* The documented scenarios as input files.  The scenarios count in ticks:  *)
(* k ticks are written k/SCALE_FACTOR in the file.                          *)

InTicks(k) == (100 * k) \div SCALE_FACTOR

EmptyFile == <<>>
Scenario1File ==
    <<Line("P", <<InTicks(1), InTicks(4)>>, ""),
      Line("P", <<InTicks(2), InTicks(6)>>, "")>>
Scenario4File ==
    <<Line("P", <<InTicks(3), InTicks(10)>>, ""),
      Line("A", <<InTicks(2), InTicks(2)>>, "Deferrable")>>
Scenario5File ==
    <<Line("P", <<InTicks(1), InTicks(5)>>, ""),
      Line("A", <<InTicks(3), InTicks(4)>>, "")>>

ScenarioFiles == {EmptyFile, Scenario1File, Scenario4File, Scenario5File}

ScenarioInit ==
    \E file \in ScenarioFiles, algo \in Algorithms :
      LET result == readInputFile(file)
      IN  /\ inputFile = file
          /\ Start(result.periodicTasks, result.aperiodicTasks, algo, result.serverPolicy)

ScenarioSpec == ScenarioInit /\ [][Next]_vars

---------------------------------------------------------------------------
(* readInputFile on its own: files of up to two lines, a line of any kind   *)
(* with 1..MaxCount numbers.                                                *)

MaxCount == 4        \* a line holds up to MaxCount numbers

ReaderNumbers == {25, 104}          \* 0.25 and 1.04
ReaderKinds == {"P", "D", "A", "#"}
ReaderTags == {"", "Poller", "Deferrable"}

ReaderLines ==
    {Line(k, n, "") : k \in {"P", "D"},
                      n \in UNION {[1..c -> ReaderNumbers] : c \in 1..MaxCount}}
    \cup {Line("A", n, g) : n \in UNION {[1..c -> ReaderNumbers] : c \in 1..2},
                            g \in ReaderTags}
    \cup {Line("#", <<>>, "")}

ReaderFiles == {<<>>} \cup {<<a>> : a \in ReaderLines}
                     \cup {<<a, b>> : a \in ReaderLines, b \in ReaderLines}

ReaderInit ==
    \E file \in ReaderFiles :
        /\ inputFile = file
        /\ periodicTasks = <<>>
        /\ aperiodicTasks = <<>>
        /\ algorithm = "none"
        /\ serverPolicy = "Background"
        /\ hyperperiod = 0
        /\ t = 0
        /\ jobCounter = 1
        /\ readyQueue = <<>>
        /\ aperiodicQueue = <<>>
        /\ history = <<>>
        /\ pc = "reading"
        /\ exitStatus = -1
        /\ files = {}
        /\ jobs = <<>>
        /\ picks = <<>>
        /\ atPick = [t |-> -1, rq |-> <<>>, aq |-> <<>>, histLen |-> 0]

(* ParseResult input = FileReader::readInputFile(filename) *)
ReadInputFile ==
    /\ pc = "reading"
    /\ LET result == readInputFile(inputFile)
       IN  /\ periodicTasks' = result.periodicTasks
           /\ aperiodicTasks' = result.aperiodicTasks
           /\ serverPolicy' = result.serverPolicy
    /\ pc' = "read"
    /\ UNCHANGED <<inputFile, algorithm, hyperperiod, t, jobCounter, readyQueue,
                   aperiodicQueue, history, exitStatus, files, jobs, picks, atPick>>

ReaderSpec == ReaderInit /\ [][ReadInputFile]_vars

---------------------------------------------------------------------------
(* pickNextJob on its own: a ready queue of up to MaxSortLen jobs with      *)
(* distinct ids in any order is sorted, then sorted again, at one time t.   *)
(* jobs keeps the queue as given, atPick.rq the queue before the last sort. *)

MaxSortLen == 2      \* the queues hold up to MaxSortLen jobs

SortKeys == {1, 2}
SortArrivals == {0, 1}
SortTimes == {1, 2}

(* a job part-way through its life: arrival a, remaining r *)
SortJobs(id) ==
    {[Job(id, Task(id, "Periodic", 0, 2, p, d), a) EXCEPT !.remainingExecutionTime = r] :
       p \in SortKeys, d \in SortKeys, a \in SortArrivals, r \in 1..2}

Permutations(n) ==
    {f \in [1..n -> 1..n] : \A i, k \in 1..n : f[i] = f[k] => i = k}

SortQueues ==
    UNION {{q \in [1..n -> UNION {SortJobs(id) : id \in 1..n}] :
              \E f \in Permutations(n) : \A i \in 1..n : q[i].jobId = f[i]} :
           n \in 0..MaxSortLen}

SortInit ==
    \E q \in SortQueues, algo \in Algorithms, now \in SortTimes :
        /\ inputFile = <<>>
        /\ periodicTasks = <<>>
        /\ aperiodicTasks = <<>>
        /\ algorithm = algo
        /\ serverPolicy = "Background"
        /\ hyperperiod = 0
        /\ t = now
        /\ jobCounter = Len(q) + 1
        /\ readyQueue = q
        /\ aperiodicQueue = <<>>
        /\ history = <<>>
        /\ pc = "unsorted"
        /\ exitStatus = -1
        /\ files = {}
        /\ jobs = q
        /\ picks = <<>>
        /\ atPick = [t |-> -1, rq |-> <<>>, aq |-> <<>>, histLen |-> 0]

(* algorithm->pickNextJob(readyQueue, t) *)
Pick(from, to) ==
    /\ pc = from
    /\ readyQueue' \in pickNextJob(algorithm, readyQueue, t)
    /\ atPick' = [atPick EXCEPT !.t = t, !.rq = readyQueue]
    /\ pc' = to
    /\ UNCHANGED <<inputs, t, jobCounter, aperiodicQueue, history, exitStatus, files,
                   jobs, picks>>

PickOnce == Pick("unsorted", "sorted")

PickAgain == Pick("sorted", "resorted")

SortNext == PickOnce \/ PickAgain

SortSpec == SortInit /\ [][SortNext]_vars

---------------------------------------------------------------------------
(* calculateHyperperiod on its own: up to MaxHPeriodic periodic and         *)
(* MaxHAperiodic aperiodic tasks, with periods and releases that bring the  *)
(* horizon below, onto and beyond SAFETY_LIMIT.                             *)

MaxHPeriodic == 2    \* the periodic set holds up to MaxHPeriodic tasks
MaxHAperiodic == 1   \* the aperiodic set holds up to MaxHAperiodic tasks

HorizonPeriods == {0, 4, 6, 7, 250}
HorizonReleases == {0, 5, 975}
HorizonWcets == {1, 6}

SeqsUpTo(S, n) == UNION {[1..k -> S] : k \in 0..n}

HorizonPeriodic ==
    SeqsUpTo({Task(0, "Periodic", 0, 1, p, p) : p \in HorizonPeriods}, MaxHPeriodic)

HorizonAperiodic ==
    SeqsUpTo({Task(0, "Aperiodic", r, e, 0, 0) : r \in HorizonReleases, e \in HorizonWcets},
             MaxHAperiodic)

HorizonInit ==
    \E pTasks \in HorizonPeriodic, aTasks \in HorizonAperiodic :
        /\ inputFile = <<>>
        /\ periodicTasks = pTasks
        /\ aperiodicTasks = aTasks
        /\ algorithm = "RM"
        /\ serverPolicy = "Background"
        /\ hyperperiod = 0
        /\ t = 0
        /\ jobCounter = 1
        /\ readyQueue = <<>>
        /\ aperiodicQueue = <<>>
        /\ history = <<>>
        /\ pc = "constructing"
        /\ exitStatus = -1
        /\ files = {}
        /\ jobs = <<>>
        /\ picks = <<>>
        /\ atPick = [t |-> -1, rq |-> <<>>, aq |-> <<>>, histLen |-> 0]

(* hyperperiod = calculateHyperperiod() in the constructor *)
SetHyperperiod ==
    /\ pc = "constructing"
    /\ hyperperiod' = calculateHyperperiod(periodicTasks, aperiodicTasks)
    /\ pc' = "constructed"
    /\ UNCHANGED <<inputFile, periodicTasks, aperiodicTasks, algorithm, serverPolicy,
                   t, jobCounter, readyQueue, aperiodicQueue, history, exitStatus,
                   files, jobs, picks, atPick>>

HorizonSpec == HorizonInit /\ [][SetHyperperiod]_vars

---------------------------------------------------------------------------
(* Reading the event log *)

IsServerExec(e) == e.type \in {"ServerExec", "ServerExec(DS)"}
IsSlotEvent(e) == IsServerExec(e) \/ e.type \in {"Running", "BackgroundRun", "Idle"}
IsWorkEvent(e) == IsServerExec(e) \/ e.type \in {"Running", "BackgroundRun"}

EventIndices(P(_)) == {i \in 1..Len(history) : P(history[i])}

IsServerJob(j) == j.task.id = SERVER_TASK_ID
IsDeadlineJob(j) == ~IsServerJob(j) /\ j.task.type # "Aperiodic"

(* ticks whose loop body has run *)
TicksSimulated == IF pc = "aborted" THEN t + 1 ELSE t

WindowOf(time) == time \div SERVER_PERIOD

Live == readyQueue \o aperiodicQueue

(* remaining execution time of job id: 0 once it has left its queue *)
RemainingNow(id) ==
    LET live == Live
        at == {i \in 1..Len(live) : live[i].jobId = id}
    IN  IF at = {} THEN 0 ELSE (live[CHOOSE i \in at : TRUE]).remainingExecutionTime

RunningBefore(id, time) ==
    Cardinality(EventIndices(LAMBDA e : e.type = "Running" /\ e.jobId = id /\ e.time < time))

---------------------------------------------------------------------------
(* C1: in a run that ends without a DEADLINE_MISS, every Finish event of a  *)
(* periodic or sporadic job has time <= arrival + relative deadline.        *)
DeadlineSafety ==
    pc = "done" =>
      \A i \in 1..Len(history) :
        (history[i].type = "Finish" /\ IsDeadlineJob(jobs[history[i].jobId]))
          => history[i].time <= jobs[history[i].jobId].arrivalTime
                                + jobs[history[i].jobId].task.relativeDeadline

---------------------------------------------------------------------------
(* C2: a deadline miss is fatal.  A run is aborted exactly when the         *)
(* deadline check of tick t finds an ordinary job in ready with             *)
(* t + 1 > abs_deadline; the log then ends with the one DEADLINE_MISS event *)
(* of the run, at time t + 1 with the ids of the first such job, and no     *)
(* further step of the loop is possible.                                    *)
LateJobs == {i \in 1..Len(readyQueue) :
               ~IsServerJob(readyQueue[i]) /\ t + 1 > readyQueue[i].absoluteDeadline}

MissIndices == EventIndices(LAMBDA e : e.type = "DEADLINE_MISS")

DeadlineMissFatal ==
    /\ pc = "aborted" =>
         /\ LateJobs # {}
         /\ MissIndices = {Len(history)}
         /\ LET first == readyQueue[CHOOSE i \in LateJobs : \A k \in LateJobs : i <= k]
            IN  history[Len(history)] =
                  TimelineEvent(t + 1, first.jobId, first.task.id, "DEADLINE_MISS")
         /\ ~ENABLED run
    /\ pc # "aborted" =>
         /\ MissIndices = {}
         /\ \A i \in 1..Len(readyQueue) :
              ~IsServerJob(readyQueue[i]) => t <= readyQueue[i].absoluteDeadline

DeadlineMissFatalWitness ==
    /\ pc = "aborted"
    /\ Cardinality(LateJobs) >= 2
    /\ t > 0

---------------------------------------------------------------------------
(* C3: when a run fails, the time of the DEADLINE_MISS event is the         *)
(* smallest absolute deadline d at which some ordinary job with that        *)
(* deadline still had remaining > 0, and no job has a Finish event after    *)
(* its deadline before it.                                                  *)
ViolatedDeadlines ==
    {jobs[i].absoluteDeadline : i \in
       {k \in 1..Len(jobs) :
          /\ IsDeadlineJob(jobs[k])
          /\ jobs[k].absoluteDeadline <= t + 1
          /\ jobs[k].task.computationTime
               - RunningBefore(k, jobs[k].absoluteDeadline) > 0}}

MissAtFirstViolatedDeadline ==
    pc = "aborted" =>
      /\ ViolatedDeadlines # {}
      /\ \A d \in ViolatedDeadlines : history[Len(history)].time <= d
      /\ history[Len(history)].time \in ViolatedDeadlines
      /\ \A i \in 1..Len(history) :
           (history[i].type = "Finish" /\ IsDeadlineJob(jobs[history[i].jobId]))
             => history[i].time <= jobs[history[i].jobId].absoluteDeadline

---------------------------------------------------------------------------
(* C4: one execution slot per tick.  The Running, ServerExec, BackgroundRun *)
(* and Idle events of the log are, in order, one for each simulated tick    *)
(* 0, 1, 2, ... and none for any other time; and the last tick took one     *)
(* unit off the remaining time of at most one ordinary or aperiodic job.    *)
SlotEvents == SelectSeq(history, IsSlotEvent)

NonServerAtPick == SelectSeq(atPick.rq, LAMBDA j : ~IsServerJob(j)) \o atPick.aq

ExecutedInLastTick ==
    LET atStart == NonServerAtPick
    IN  {i \in 1..Len(atStart) :
           RemainingNow(atStart[i].jobId) # atStart[i].remainingExecutionTime}

OneSlotPerTick ==
    /\ LET slots == SlotEvents
       IN  /\ Len(slots) = TicksSimulated
           /\ \A i \in 1..Len(slots) : slots[i].time = i - 1
    /\ LET atStart == NonServerAtPick
           executed == ExecutedInLastTick
       IN  /\ Cardinality(executed) <= 1
           /\ \A i \in executed :
                RemainingNow(atStart[i].jobId) = atStart[i].remainingExecutionTime - 1

OneSlotPerTickWitness ==
    /\ pc = "done"
    /\ \E i \in 1..Len(history) : IsServerExec(history[i])
    /\ \E i \in 1..Len(history) : history[i].type = "Running"
    /\ \E i \in 1..Len(history) : history[i].type = "BackgroundRun"
    /\ \E i \in 1..Len(history) : history[i].type = "Idle"
    /\ \E i \in 1..Len(picks) : ~picks[i].hasWork

---------------------------------------------------------------------------
(* C5: under Polling and under Deferrable, every window                     *)
(* [k*SERVER_PERIOD, (k+1)*SERVER_PERIOD) holds at most SERVER_CAPACITY      *)
(* ServerExec events.                                                       *)
ServerExecIn(k) == EventIndices(LAMBDA e : IsServerExec(e) /\ WindowOf(e.time) = k)

ServerBudgetCap ==
    serverPolicy \in {"Poller", "Deferrable"} =>
      LET execs == SelectSeq(history, IsServerExec)
      IN  \A k \in 0..WindowOf(hyperperiod) :
            Cardinality({i \in 1..Len(execs) : WindowOf(execs[i].time) = k})
              <= SERVER_CAPACITY

(* the cap binds: the budget of window 0 is spent, work is left over, the   *)
(* next window has opened and serves it                                     *)
ServerBudgetCapWitness ==
    /\ serverPolicy \in {"Poller", "Deferrable"}
    /\ Cardinality(ServerExecIn(0)) = SERVER_CAPACITY
    /\ Cardinality(ServerExecIn(1)) >= 1
    /\ \E i \in 1..Len(periodicTasks) : ~(periodicTasks[i].id = SERVER_TASK_ID)

---------------------------------------------------------------------------
(* The ticks at which the server job was the head of ready *)

PicksIn(k) == {i \in 1..Len(picks) : WindowOf(picks[i].time) = k}

FirstPickIn(k) == CHOOSE i \in PicksIn(k) : \A j \in PicksIn(k) : i <= j

ArrivalsIn(k, upTo) ==
    EventIndices(LAMBDA e : /\ e.type = "AperiodicArrival"
                            /\ WindowOf(e.time) = k
                            /\ e.time <= upTo)

---------------------------------------------------------------------------
(* C6, as claimed: under Polling, a window in which no AperiodicArrival     *)
(* event occurs up to the tick at which its server job is picked holds no   *)
(* ServerExec event.                                                        *)
PollingIdleWithoutArrival ==
    serverPolicy = "Poller" =>
      \A k \in 0..WindowOf(hyperperiod) :
        (PicksIn(k) # {} /\ ArrivalsIn(k, picks[FirstPickIn(k)].time) = {})
          => ServerExecIn(k) = {}

(* C6, amended: under Polling, a window whose server job finds              *)
(* pending_aperiodic empty at the tick at which it is first picked holds no *)
(* ServerExec event, whatever arrives later in the window.                   *)
PollingIdleWithoutPendingWork ==
    serverPolicy = "Poller" =>
      \A k \in 0..WindowOf(hyperperiod) :
        (PicksIn(k) # {} /\ ~picks[FirstPickIn(k)].hasWork) => ServerExecIn(k) = {}

(* the server found the queue empty and an aperiodic job arrived later in   *)
(* the same window                                                          *)
PollingIdleWithoutPendingWorkWitness ==
    /\ serverPolicy = "Poller"
    /\ \E i \in 1..Len(picks) :
         /\ ~picks[i].hasWork
         /\ i = FirstPickIn(WindowOf(picks[i].time))
         /\ \E j \in 1..Len(history) :
              /\ history[j].type = "AperiodicArrival"
              /\ WindowOf(history[j].time) = WindowOf(picks[i].time)
              /\ history[j].time > picks[i].time
              /\ history[j].time + 1 < TicksSimulated

---------------------------------------------------------------------------
(* C7: under Deferrable, at the pick of every tick t, a server job in ready *)
(* was released at floor(t / SERVER_PERIOD) * SERVER_PERIOD, its remaining  *)
(* is between 1 and SERVER_CAPACITY, and SERVER_CAPACITY minus its          *)
(* remaining is the number of ServerExec events logged so far in the        *)
(* window of t.                                                             *)
ServerExecBeforePick ==
    {i \in 1..atPick.histLen :
       IsServerExec(history[i]) /\ WindowOf(history[i].time) = WindowOf(atPick.t)}

---------------------------------------------------------------------------
(* C8: determinism.  At every iteration of the loop the sort can leave      *)
(* ready in exactly one order, so the state at the pick, the branch taken   *)
(* from it and the state after the tick are functions of the state before:  *)
(* every state of the loop has one successor and, the initial state being   *)
(* a function of the inputs, two runs on the same inputs log the same.      *)
Deterministic ==
    (pc = "run" /\ t < hyperperiod) => Cardinality(AtPick) = 1

(* the last sort had to break a tie on the job id *)
DeterministicWitness ==
    /\ Len(atPick.rq) >= 2
    /\ \E i, k \in 1..Len(atPick.rq) :
         /\ i # k
         /\ CASE algorithm = "RM"  -> atPick.rq[i].task.period = atPick.rq[k].task.period
              [] algorithm = "DM"  -> atPick.rq[i].task.relativeDeadline
                                        = atPick.rq[k].task.relativeDeadline
              [] algorithm = "EDF" -> atPick.rq[i].absoluteDeadline
                                        = atPick.rq[k].absoluteDeadline
              [] algorithm = "LST" -> getSlack(atPick.rq[i], atPick.t)
                                        = getSlack(atPick.rq[k], atPick.t)

---------------------------------------------------------------------------
(* C9: work accounting.  At the end of a run, completed or aborted, the     *)
(* number of Running, ServerExec and BackgroundRun events is the sum over   *)
(* the ordinary and aperiodic jobs ever created of wcet minus remaining;    *)
(* each such event is the event of such a job, never of a server job.       *)
WorkEventsOf(id) == EventIndices(LAMBDA e : IsWorkEvent(e) /\ e.jobId = id)

RECURSIVE WorkDone(_)
WorkDone(i) ==
    IF i > Len(jobs) THEN 0
    ELSE (IF IsServerJob(jobs[i]) THEN 0
          ELSE jobs[i].task.computationTime - RemainingNow(i)) + WorkDone(i + 1)

WorkAccounting ==
    pc \in {"done", "aborted"} =>
      /\ Cardinality(EventIndices(IsWorkEvent)) = WorkDone(1)
      /\ \A i \in 1..Len(jobs) :
           IF IsServerJob(jobs[i])
           THEN WorkEventsOf(i) = {}
           ELSE Cardinality(WorkEventsOf(i))
                  = jobs[i].task.computationTime - RemainingNow(i)

(* a run that ends with a job part-executed, after server budget was        *)
(* forfeited and aperiodic work was served                                  *)
WorkAccountingWitness ==
    /\ pc \in {"done", "aborted"}
    /\ \E i \in 1..Len(picks) : ~picks[i].hasWork
    /\ \E i \in 1..Len(history) : IsServerExec(history[i])
    /\ \E i \in 1..Len(Live) :
         /\ ~IsServerJob(Live[i])
         /\ Live[i].remainingExecutionTime \in 1..(Live[i].task.computationTime - 1)

---------------------------------------------------------------------------
(* C10: the times of the log never decrease from one event to the next,     *)
(* and a step only appends to the log.                                      *)
LogTimesOrdered ==
    \A i \in 1..(Len(history) - 1) : history[i].time <= history[i + 1].time

LogAppendOnly ==
    /\ Len(history) <= Len(history')
    /\ SubSeq(history', 1, Len(history)) = history

LogMonotone == [](LogTimesOrdered) /\ [][LogAppendOnly]_vars

(* a Finish stamped t + 1 in tick t is followed by events of tick t + 1,    *)
(* and a run ends on a Finish followed by a DEADLINE_MISS of the same time  *)
LogMonotoneWitness ==
    /\ pc = "aborted"
    /\ Len(history) >= 4
    /\ history[Len(history) - 1].type = "Finish"
    /\ history[Len(history)].type = "DEADLINE_MISS"
    /\ history[Len(history)].time = history[Len(history) - 1].time
    /\ \E i \in 1..(Len(history) - 2) :
         /\ history[i].type = "AperiodicFinish"
         /\ history[i + 1].time = history[i].time

---------------------------------------------------------------------------
(* C11: pending_aperiodic is ordered by (arrival, job_id) ascending; every   *)
(* ServerExec or BackgroundRun event of a tick is for the head the pick of   *)
(* that tick found in pending_aperiodic, so for a job that no unfinished     *)
(* aperiodic job precedes in (arrival, job_id).                              *)
ArrivedBefore(a, b) ==
    \/ a.arrivalTime < b.arrivalTime
    \/ a.arrivalTime = b.arrivalTime /\ a.jobId < b.jobId

FifoOrdered(q) == \A i \in 1..(Len(q) - 1) : ArrivedBefore(q[i], q[i + 1])

LastTickEvents == SubSeq(history, atPick.histLen + 1, Len(history))

IsAperiodicExec(e) == IsServerExec(e) \/ e.type = "BackgroundRun"

AperiodicFifo ==
    /\ FifoOrdered(aperiodicQueue)
    /\ FifoOrdered(atPick.aq)
    /\ \A i \in 1..Len(LastTickEvents) :
         IsAperiodicExec(LastTickEvents[i]) =>
           /\ atPick.aq # <<>>
           /\ LastTickEvents[i].jobId = atPick.aq[1].jobId
           /\ \A k \in 2..Len(atPick.aq) : ArrivedBefore(atPick.aq[1], atPick.aq[k])

(* two aperiodic jobs of the same arrival tick are pending, the server      *)
(* serves the older one, and it is not the first tick they wait             *)
AperiodicFifoWitness ==
    /\ Len(atPick.aq) = 2
    /\ atPick.aq[1].arrivalTime = atPick.aq[2].arrivalTime
    /\ atPick.aq[1].arrivalTime < atPick.t
    /\ \E i \in 1..Len(LastTickEvents) : IsServerExec(LastTickEvents[i])

---------------------------------------------------------------------------
(* C12: queue separation.  No job is in both queues or twice in one; ready  *)
(* holds only jobs of periodic, sporadic or server tasks and                *)
(* pending_aperiodic only jobs of aperiodic tasks; a queued job has work or *)
(* budget left (a completed or exhausted job is in neither queue); and a    *)
(* job that has left the queues never comes back: a step only adds jobs     *)
(* with fresh ids.                                                          *)
IdsOf(q) == {q[i].jobId : i \in 1..Len(q)}

QueuedIds == IdsOf(readyQueue) \cup IdsOf(aperiodicQueue)

QueuesSeparate ==
    /\ IdsOf(readyQueue) \cap IdsOf(aperiodicQueue) = {}
    /\ Cardinality(IdsOf(readyQueue)) = Len(readyQueue)
    /\ Cardinality(IdsOf(aperiodicQueue)) = Len(aperiodicQueue)
    /\ \A i \in 1..Len(readyQueue) :
         /\ readyQueue[i].task.type \in {"Periodic", "Sporadic"}
         /\ readyQueue[i].remainingExecutionTime > 0
         /\ IsServerJob(readyQueue[i]) => readyQueue[i].absoluteDeadline >= t
    /\ \A i \in 1..Len(aperiodicQueue) :
         /\ aperiodicQueue[i].task.type = "Aperiodic"
         /\ aperiodicQueue[i].remainingExecutionTime > 0

GoneStaysGone ==
    \A id \in QueuedIds' : id \in QueuedIds \/ id >= jobCounter

QueueSeparation == [](QueuesSeparate) /\ [][GoneStaysGone]_vars

(* both queues hold a job while a periodic job has completed, a server job  *)
(* has been retired and an aperiodic job has been consumed                  *)
QueueSeparationWitness ==
    /\ readyQueue # <<>>
    /\ aperiodicQueue # <<>>
    /\ \E i \in 1..Len(jobs) :
         /\ IsServerJob(jobs[i])
         /\ jobs[i].jobId \notin QueuedIds
    /\ \E i \in 1..Len(jobs) :
         /\ jobs[i].task.type = "Aperiodic"
         /\ jobs[i].jobId \notin QueuedIds
    /\ \E i \in 1..Len(jobs) :
         /\ ~IsServerJob(jobs[i])
         /\ jobs[i].task.type = "Periodic"
         /\ jobs[i].jobId \notin QueuedIds

---------------------------------------------------------------------------
(* Reading a finished scenario run *)

(* the run of the given file, whose periodic set may have got the server *)
RunOf(file) ==
    LET result == readInputFile(file)
    IN  /\ pc # "noinput"
        /\ aperiodicTasks = result.aperiodicTasks
        /\ SubSeq(periodicTasks, 1, Len(result.periodicTasks)) = result.periodicTasks

Finished == pc \in {"done", "aborted"}

(* the ticks at which the log has an event of the given type for the task *)
TicksOf(type, taskId) ==
    {history[i].time : i \in {k \in 1..Len(history) :
                                 history[k].type = type /\ history[k].taskId = taskId}}

NoMissLogged == \A i \in 1..Len(history) : history[i].type # "DEADLINE_MISS"

---------------------------------------------------------------------------
(* C13: scenario 1 under Rate Monotonic, as documented: horizon 12, no      *)
(* DEADLINE_MISS, T1 runs at {0, 4, 8} and T2 at {1, 2, 5, 6, 9, 10}.       *)
Scenario1AsDocumented ==
    (RunOf(Scenario1File) /\ algorithm = "RM") =>
      /\ hyperperiod = 12
      /\ pc # "aborted"
      /\ NoMissLogged
      /\ Finished =>
           /\ TicksOf("Running", 1) = {0, 4, 8}
           /\ TicksOf("Running", 2) = {1, 2, 5, 6, 9, 10}

(* C13, amended: T2 has period 6, so two jobs in the horizon, which run at  *)
(* {1, 2, 6, 7}; the rest as documented.                                    *)
Scenario1Schedule ==
    (RunOf(Scenario1File) /\ algorithm = "RM") =>
      /\ hyperperiod = 12
      /\ pc # "aborted"
      /\ NoMissLogged
      /\ Finished =>
           /\ TicksOf("Running", 1) = {0, 4, 8}
           /\ TicksOf("Running", 2) = {1, 2, 6, 7}

Scenario1ScheduleWitness ==
    /\ RunOf(Scenario1File)
    /\ algorithm = "RM"
    /\ pc = "done"
    /\ t = 12

---------------------------------------------------------------------------
(* C14: scenario 4, Deferrable, under each priority policy: the server job  *)
(* keeps its budget 2 through ticks 0 and 1 while the periodic task runs,   *)
(* the ServerExec events are exactly at ticks 2 and 3, the aperiodic job    *)
(* completes with AperiodicFinish at time 4, and no DEADLINE_MISS is logged. *)
ServerExecTicks == {history[i].time : i \in EventIndices(IsServerExec)}

ServerBudgets ==
    {readyQueue[i].remainingExecutionTime :
       i \in {k \in 1..Len(readyQueue) : IsServerJob(readyQueue[k])}}

Scenario4Deferrable ==
    RunOf(Scenario4File) =>
      /\ serverPolicy = "Deferrable"
      /\ pc # "aborted"
      /\ NoMissLogged
      /\ t \in 1..2 =>
           /\ ServerBudgets = {SERVER_CAPACITY}
           /\ TicksOf("Running", 1) = 0..(t - 1)
           /\ ServerExecTicks = {}
      /\ t >= 4 =>
           /\ ServerExecTicks = {2, 3}
           /\ TicksOf("AperiodicFinish", 2) = {4}
           /\ aperiodicQueue = <<>>

Scenario4DeferrableWitness ==
    /\ RunOf(Scenario4File)
    /\ algorithm = "LST"
    /\ pc = "done"
    /\ ServerExecTicks = {2, 3}

---------------------------------------------------------------------------
(* C15: scenario 5 as documented: the policy is Background, the aperiodic   *)
(* job's BackgroundRun events are exactly at ticks {4, 6, 7, 8}, the job    *)
(* completes, and no ServerExec event is logged.                            *)
Scenario5AsDocumented ==
    RunOf(Scenario5File) =>
      /\ serverPolicy = "Background"
      /\ ServerExecTicks = {}
      /\ Finished =>
           /\ TicksOf("BackgroundRun", 2) = {4, 6, 7, 8}
           /\ aperiodicQueue = <<>>

(* C15, amended: the job arrives at tick 3, where ready is empty, so its    *)
(* BackgroundRun events are at {3, 4, 6, 7}; the rest as documented.        *)
Scenario5Background ==
    RunOf(Scenario5File) =>
      /\ serverPolicy = "Background"
      /\ ServerExecTicks = {}
      /\ Finished =>
           /\ TicksOf("BackgroundRun", 2) = {3, 4, 6, 7}
           /\ aperiodicQueue = <<>>
           /\ pc = "done"

Scenario5BackgroundWitness ==
    /\ RunOf(Scenario5File)
    /\ pc = "done"
    /\ Cardinality(TicksOf("BackgroundRun", 2)) = 4

---------------------------------------------------------------------------
(* C16: sort idempotence.  For each policy and every ready queue with       *)
(* distinct job ids, pickNextJob applied a second time at the same t leaves *)
(* the queue in the order the first application left it in.                 *)
SortIdempotent == pc = "resorted" => readyQueue = atPick.rq

(* a queue of full length with equal periods that the first sort reordered *)
SortIdempotentWitness ==
    /\ pc = "resorted"
    /\ Len(jobs) = MaxSortLen
    /\ readyQueue # jobs
    /\ readyQueue[1].task.period = readyQueue[2].task.period
    /\ algorithm = "RM"

---------------------------------------------------------------------------
(* C17: priority order.  pickNextJob at time t leaves ready as a            *)
(* permutation of its input, sorted strictly ascending by (key, job_id),    *)
(* key = period for RM, relative_deadline for DM, abs_deadline for EDF and  *)
(* abs_deadline - t - remaining for LST; the head has the minimal pair, and *)
(* no job is added, dropped or modified.                                    *)
Key(algo, j, now) ==
    CASE algo = "RM"  -> j.task.period
      [] algo = "DM"  -> j.task.relativeDeadline
      [] algo = "EDF" -> j.absoluteDeadline
      [] algo = "LST" -> j.absoluteDeadline - now - j.remainingExecutionTime

PairLess(algo, a, b, now) ==
    \/ Key(algo, a, now) < Key(algo, b, now)
    \/ Key(algo, a, now) = Key(algo, b, now) /\ a.jobId < b.jobId

PriorityOrder ==
    pc = "sorted" =>
      /\ Len(readyQueue) = Len(jobs)
      /\ {readyQueue[i] : i \in 1..Len(readyQueue)} = {jobs[i] : i \in 1..Len(jobs)}
      /\ \A i \in 1..(Len(readyQueue) - 1) :
           PairLess(algorithm, readyQueue[i], readyQueue[i + 1], t)
      /\ \A i \in 2..Len(jobs) :
           PairLess(algorithm, readyQueue[1], readyQueue[i], t)

(* under EDF the sort moved to the front a job that ties on the absolute    *)
(* deadline and wins on the job id, though its relative deadline is longer  *)
PriorityOrderWitness ==
    /\ pc = "sorted"
    /\ algorithm = "EDF"
    /\ Len(jobs) = MaxSortLen
    /\ readyQueue[1] # jobs[1]
    /\ readyQueue[1].task.relativeDeadline > readyQueue[2].task.relativeDeadline
    /\ readyQueue[1].absoluteDeadline = readyQueue[2].absoluteDeadline

---------------------------------------------------------------------------
(* C18: exit status.  Once main() has returned: 0 after a run without       *)
(* deadline miss, 1 when no task was parsed (no Scheduler was built), and   *)
(* a nonzero status with the failure artifact written after a run that      *)
(* ended in a DEADLINE_MISS.                                                *)
ExitStatusContract ==
    exitStatus # -1 =>
      /\ pc = "done" => exitStatus = 0
      /\ pc = "noinput" => exitStatus = 1 /\ history = <<>> /\ files = {}
      /\ pc = "aborted" => exitStatus # 0 /\ "output_ABORTED.txt" \in files

---------------------------------------------------------------------------
(* C19: server synthesis.  The periodic set holds exactly one task with id  *)
(* 999, kind Periodic, release 0, wcet SERVER_CAPACITY, period and relative *)
(* deadline SERVER_PERIOD when the policy name is "Poller" or "Deferrable"; *)
(* for "Background" and any other name it holds none, and the run has no    *)
(* job of task 999, no pick of a server job and no ServerExec event.        *)
ServerTasks == {i \in 1..Len(periodicTasks) : periodicTasks[i].id = 999}

ServerSynthesis ==
    pc # "noinput" =>
      IF serverPolicy \in {"Poller", "Deferrable"}
      THEN /\ Cardinality(ServerTasks) = 1
           /\ \A i \in ServerTasks :
                periodicTasks[i] =
                  [id |-> 999, type |-> "Periodic", releaseTime |-> 0,
                   computationTime |-> SERVER_CAPACITY, period |-> SERVER_PERIOD,
                   relativeDeadline |-> SERVER_PERIOD]
      ELSE /\ ServerTasks = {}
           /\ \A i \in 1..Len(jobs) : jobs[i].task.id # 999
           /\ \A i \in 1..Len(readyQueue) : readyQueue[i].task.id # 999
           /\ picks = <<>>
           /\ ServerExecTicks = {}

(* a finished run under an unknown policy name, its aperiodic work done in  *)
(* the background                                                           *)
ServerSynthesisWitness ==
    /\ serverPolicy = "Sporadic"
    /\ pc = "done"
    /\ Len(jobs) > Len(aperiodicTasks)
    /\ \E i \in 1..Len(history) : history[i].type = "BackgroundRun"

---------------------------------------------------------------------------
(* C20: horizon.  calculateHyperperiod returns H with 1 <= H <= SAFETY_LIMIT; *)
(* when H < SAFETY_LIMIT, H is the smallest positive common multiple of the *)
(* positive periods of the periodic tasks (the smallest multiple of their   *)
(* lcm L, L = 1 without any) with H >= release + wcet + BUFFER for every    *)
(* aperiodic task, and H = L when there is no aperiodic task.               *)
PositivePeriods ==
    {periodicTasks[i].period : i \in {k \in 1..Len(periodicTasks) :
                                         periodicTasks[k].period > 0}}

CommonMultiples == {m \in 1..SAFETY_LIMIT : \A p \in PositivePeriods : m % p = 0}

CoversAperiodic(m) ==
    \A i \in 1..Len(aperiodicTasks) :
       m >= aperiodicTasks[i].releaseTime + aperiodicTasks[i].computationTime + BUFFER

Least(S) == CHOOSE m \in S : \A n \in S : m <= n

HorizonContract ==
    pc = "constructed" =>
      /\ 1 <= hyperperiod
      /\ hyperperiod <= SAFETY_LIMIT
      /\ hyperperiod < SAFETY_LIMIT =>
           /\ hyperperiod \in CommonMultiples
           /\ hyperperiod = Least({m \in CommonMultiples : CoversAperiodic(m)})
           /\ aperiodicTasks = <<>> => hyperperiod = Least(CommonMultiples)

(* the lcm 12 of two periods, extended by whole multiples to 996 for an     *)
(* aperiodic task released at 975                                           *)
HorizonContractWitness ==
    /\ pc = "constructed"
    /\ PositivePeriods = {4, 6}
    /\ aperiodicTasks # <<>>
    /\ hyperperiod = 996

---------------------------------------------------------------------------
(* Input shapes of "D" lines *)

(* the lines of the file that define a task, in order: the k-th one makes  *)
(* the task with id k                                                       *)
TaskLines == SelectSeq(inputFile, IsTaskLine)

AllTasks == periodicTasks \o aperiodicTasks

TaskWithId(k) == CHOOSE task \in {AllTasks[i] : i \in DOMAIN AllTasks} : task.id = k

Fields(task) ==
    <<task.releaseTime, task.computationTime, task.period, task.relativeDeadline>>

IsD(k) == TaskLines[k].kind = "D"

SameAsP(k) ==
    Fields(TaskWithId(k)) = Fields(ParseLine([TaskLines[k] EXCEPT !.kind = "P"], k))

(* C21 as stated: every "D" line yields the release, wcet, period and      *)
(* deadline of the "P" line with the same numbers, with three numbers a b c *)
(* in particular release a, wcet b, period c and deadline c.                *)
DShapesAsDocumented ==
    pc = "read" =>
        \A k \in DOMAIN TaskLines : IsD(k) => SameAsP(k)

(* C21: a "D" line with two or with four numbers yields the fields of the   *)
(* "P" line with the same numbers; a "D" line with three numbers a b c      *)
(* yields release 0, wcet a, period b and deadline c, each in ticks (times  *)
(* SCALE_FACTOR, rounded).                                                  *)
DShapes ==
    pc = "read" =>
        \A k \in DOMAIN TaskLines :
            IsD(k) =>
                LET n == TaskLines[k].nums
                IN  /\ Len(n) \in {2, 4} => SameAsP(k)
                    /\ Len(n) = 3 =>
                          Fields(TaskWithId(k)) =
                              <<0, ScaleAndRound(n[1]), ScaleAndRound(n[2]),
                                ScaleAndRound(n[3])>>

DShapesWitness ==
    /\ pc = "read"
    /\ Len(TaskLines) = 2
    /\ IsD(1) /\ Len(TaskLines[1].nums) = 3
    /\ TaskLines[1].nums[1] # TaskLines[1].nums[2]
    /\ TaskWithId(1).releaseTime = 0
    /\ TaskWithId(1).relativeDeadline < TaskWithId(1).period
    /\ IsD(2) /\ Len(TaskLines[2].nums) = 4

---------------------------------------------------------------------------
(* Priority-driven execution *)

(* the positions in the queue of the last pick of the job that event e names *)
PickedAt(e) == {k \in DOMAIN atPick.rq : atPick.rq[k].jobId = e.jobId}

(* C22: a Running event logged at tick t names a non-server job that was in *)
(* the ready queue after the arrivals of tick t and has the least (policy   *)
(* key at t, job id) of the non-server jobs there; a server job comes       *)
(* before it in priority order only when the aperiodic queue was empty at   *)
(* the pick, that is when the server yielded in this tick.                  *)
PriorityDriven ==
    LET last == LastTickEvents
        rq == atPick.rq
    IN  \A i \in DOMAIN last :
          last[i].type = "Running" =>
            /\ last[i].time = atPick.t
            /\ \E k \in PickedAt(last[i]) :
                 /\ ~IsServerJob(rq[k])
                 /\ \A m \in DOMAIN rq :
                      m # k /\ ~IsServerJob(rq[m]) =>
                        PairLess(algorithm, rq[k], rq[m], atPick.t)
                 /\ \/ \A m \in DOMAIN rq :
                         IsServerJob(rq[m]) => PairLess(algorithm, rq[k], rq[m], atPick.t)
                    \/ atPick.aq = <<>>

(* a job ran ahead of another ordinary job in a tick where the server job   *)
(* came first and yielded, after it had served in an earlier tick           *)
PriorityDrivenWitness ==
    LET last == LastTickEvents
        rq == atPick.rq
    IN  /\ Len(rq) = 3
        /\ IsServerJob(rq[1])
        /\ atPick.aq = <<>>
        /\ \E i \in DOMAIN last :
             /\ last[i].type = "Running"
             /\ last[i].jobId = rq[2].jobId
        /\ \E i \in 1..atPick.histLen : IsServerExec(history[i])

---------------------------------------------------------------------------
(* Server service step *)

OrdinaryJobs(q) == SelectSeq(q, LAMBDA j : ~IsServerJob(j))
ServerJobs(q) == SelectSeq(q, IsServerJob)

ServedInLastTick == \E i \in DOMAIN LastTickEvents : IsServerExec(LastTickEvents[i])

(* C23: a ServerExec event of tick t means that after the sort of tick t    *)
(* the head of the ready queue was a server job with remaining >= 1 and the *)
(* aperiodic queue was not empty; the tick takes exactly 1 from the         *)
(* remaining of the head aperiodic job and 1 from the budget of the server  *)
(* job, changes no other job, and a server job whose budget reaches 0 has   *)
(* left the ready queue by the end of the tick.                             *)
ServerServiceStep ==
    ServedInLastTick =>
      LET rq == atPick.rq
          aq == atPick.aq
          last == LastTickEvents
          served == ServerJobs(readyQueue)
      IN  /\ rq # <<>> /\ IsServerJob(rq[1]) /\ rq[1].remainingExecutionTime >= 1
          /\ aq # <<>>
          /\ Cardinality({i \in DOMAIN last : IsServerExec(last[i])}) = 1
          /\ \A i \in DOMAIN last :
               IsServerExec(last[i]) =>
                 last[i].time = atPick.t /\ last[i].jobId = aq[1].jobId
          /\ aperiodicQueue =
               IF aq[1].remainingExecutionTime = 1
               THEN Tail(aq)
               ELSE [aq EXCEPT ![1].remainingExecutionTime = @ - 1]
          /\ OrdinaryJobs(readyQueue) = OrdinaryJobs(rq)
          /\ served \in {<<>>, <<[rq[1] EXCEPT !.remainingExecutionTime = @ - 1]>>}
          /\ rq[1].remainingExecutionTime = 1 => served = <<>>

(* the server spends the last tick of its budget on an aperiodic job that   *)
(* needs more, while an ordinary job waits in the ready queue               *)
ServerServiceStepWitness ==
    /\ ServedInLastTick
    /\ atPick.rq[1].remainingExecutionTime = 1
    /\ atPick.aq[1].remainingExecutionTime >= 2
    /\ OrdinaryJobs(atPick.rq) # <<>>
    /\ aperiodicQueue # <<>>
    /\ pc = "run"

---------------------------------------------------------------------------
(* Polling yield *)

(* the last tick picked the server job and found no aperiodic work *)
YieldedInLastTick ==
    /\ atPick.t >= 0
    /\ atPick.rq # <<>>
    /\ IsServerJob(atPick.rq[1])
    /\ atPick.aq = <<>>

RanInLastTick(j) ==
    \E i \in DOMAIN LastTickEvents :
        /\ LastTickEvents[i].type = "Running"
        /\ LastTickEvents[i].time = atPick.t
        /\ LastTickEvents[i].jobId = j.jobId

YieldsOfWindow(w) ==
    {k \in DOMAIN picks : ~picks[k].hasWork /\ WindowOf(picks[k].time) = w}

(* C24: under Polling, a tick that finds the server job at the head of the  *)
(* ready queue and the aperiodic queue empty removes the server job from    *)
(* the ready queue, runs the next job of the ready queue (if any) in that   *)
(* same tick, and no later tick of that server window logs a ServerExec,    *)
(* whatever arrives in the window.                                          *)
PollingYield ==
    serverPolicy = "Poller" =>
      /\ YieldedInLastTick =>
           /\ ServerJobs(readyQueue) = <<>>
           /\ Len(atPick.rq) > 1 => RanInLastTick(atPick.rq[2])
      /\ ServedInLastTick => YieldsOfWindow(WindowOf(atPick.t)) = {}

(* the server yielded while another job was ready and ran, an aperiodic job *)
(* arrived later in the same window, and the window has gone by             *)
PollingYieldWitness ==
    /\ serverPolicy = "Poller"
    /\ \E k \in DOMAIN picks :
         /\ ~picks[k].hasWork
         /\ \E i \in DOMAIN history :
              history[i].type = "Running" /\ history[i].time = picks[k].time
         /\ \E i \in DOMAIN history :
              /\ history[i].type = "AperiodicArrival"
              /\ history[i].time > picks[k].time
              /\ WindowOf(history[i].time) = WindowOf(picks[k].time)
         /\ WindowOf(atPick.t) > WindowOf(picks[k].time)
    /\ ServedInLastTick

---------------------------------------------------------------------------
(* Deferrable yield *)

(* the last tick picked the server job and found aperiodic work, after the  *)
(* server had yielded in an earlier tick of the same window                 *)
WorkAfterYield ==
    /\ atPick.rq # <<>>
    /\ IsServerJob(atPick.rq[1])
    /\ atPick.aq # <<>>
    /\ \E k \in YieldsOfWindow(WindowOf(atPick.t)) : picks[k].time < atPick.t

(* C25: under Deferrable, a tick that finds the server job at the head of   *)
(* the ready queue and the aperiodic queue empty leaves the server job in   *)
(* the ready queue with its remaining unchanged and runs the best           *)
(* non-server job of the ready queue (if any) in that tick; when a later    *)
(* tick of the same window finds the server job at the head and an          *)
(* aperiodic job pending, that tick logs a ServerExec.                      *)
DeferrableYield ==
    serverPolicy = "Deferrable" =>
      /\ YieldedInLastTick =>
           LET others == OrdinaryJobs(atPick.rq)
           IN  /\ ServerJobs(readyQueue) = <<atPick.rq[1]>>
               /\ others # <<>> =>
                    /\ RanInLastTick(others[1])
                    /\ \A m \in 2..Len(others) :
                         PairLess(algorithm, others[1], others[m], atPick.t)
      /\ WorkAfterYield =>
           \E i \in DOMAIN LastTickEvents :
               /\ IsServerExec(LastTickEvents[i])
               /\ LastTickEvents[i].time = atPick.t
               /\ LastTickEvents[i].jobId = atPick.aq[1].jobId

(* the server yielded to a job that then ran, and serves, in a later tick   *)
(* of the same window, the aperiodic job that arrived after the yield       *)
DeferrableYieldWitness ==
    /\ serverPolicy = "Deferrable"
    /\ WorkAfterYield
    /\ ServedInLastTick
    /\ \E k \in YieldsOfWindow(WindowOf(atPick.t)) :
         /\ atPick.aq[1].arrivalTime > picks[k].time
         /\ \E i \in DOMAIN history :
              history[i].type = "Running" /\ history[i].time = picks[k].time
    /\ ServerJobs(atPick.rq)[1].remainingExecutionTime = SERVER_CAPACITY

---------------------------------------------------------------------------
(* Background execution *)

BackgroundRuns == {i \in DOMAIN LastTickEvents : LastTickEvents[i].type = "BackgroundRun"}

(* C26: under every server policy, a BackgroundRun event of tick t means    *)
(* that the ready queue was empty at the execution step of tick t (no       *)
(* periodic, sporadic or server job after the arrivals), and the tick takes *)
(* 1 from the remaining of the head of the aperiodic queue and changes      *)
(* nothing else.                                                            *)
BackgroundOnlyWhenIdle ==
    LET last == LastTickEvents
        aq == atPick.aq
    IN  BackgroundRuns # {} =>
          /\ atPick.rq = <<>>
          /\ readyQueue = <<>>
          /\ aq # <<>>
          /\ Cardinality(BackgroundRuns) = 1
          /\ \A i \in BackgroundRuns :
               last[i].time = atPick.t /\ last[i].jobId = aq[1].jobId
          /\ \A i \in DOMAIN last : ~IsServerExec(last[i]) /\ last[i].type # "Running"
          /\ aperiodicQueue =
               IF aq[1].remainingExecutionTime = 1
               THEN Tail(aq)
               ELSE [aq EXCEPT ![1].remainingExecutionTime = @ - 1]

(* with a server in place, the aperiodic job the server has served before   *)
(* runs in the background, in a window where the server job has gone        *)
BackgroundOnlyWhenIdleWitness ==
    /\ serverPolicy \in {"Poller", "Deferrable"}
    /\ BackgroundRuns # {}
    /\ \E k \in DOMAIN picks : WindowOf(picks[k].time) = WindowOf(atPick.t)
    /\ \E i \in 1..atPick.histLen :
         IsServerExec(history[i]) /\ history[i].jobId = atPick.aq[1].jobId

---------------------------------------------------------------------------
(* Aperiodic completions *)

(* an aperiodic job ran in the last tick with 1 left of its remaining *)
AperiodicCompletedInLastTick ==
    /\ \E i \in DOMAIN LastTickEvents : IsAperiodicExec(LastTickEvents[i])
    /\ atPick.aq # <<>>
    /\ atPick.aq[1].remainingExecutionTime = 1

(* C27: for every aperiodic job whose remaining reaches 0 during tick t,    *)
(* executed by ServerExec or by BackgroundRun, an AperiodicFinish event for *)
(* that job with time t + 1 is logged and the job has left the aperiodic    *)
(* queue.                                                                   *)
AperiodicFinishLogged ==
    AperiodicCompletedInLastTick =>
      /\ \E i \in DOMAIN LastTickEvents :
           /\ LastTickEvents[i].type = "AperiodicFinish"
           /\ LastTickEvents[i].jobId = atPick.aq[1].jobId
           /\ LastTickEvents[i].time = atPick.t + 1
      /\ \A k \in DOMAIN aperiodicQueue : aperiodicQueue[k].jobId # atPick.aq[1].jobId

---------------------------------------------------------------------------
(* Single live server instance *)

(* the release of the server window that holds tick now *)
WindowStart(now) == WindowOf(now) * SERVER_PERIOD

---------------------------------------------------------------------------
(* Server jobs and the deadline check *)

LastEvent == history[Len(history)]

MissLogged == history # <<>> /\ LastEvent.type = "DEADLINE_MISS"

(* C29: no DEADLINE_MISS event names the server task, and a run ends early  *)
(* only on an ordinary job that is past its deadline, never on a server     *)
(* job, whatever budget a server job holds when its window ends.            *)
ServerExemptFromDeadline ==
    /\ MissLogged => LastEvent.taskId # SERVER_TASK_ID
    /\ pc = "aborted" =>
         /\ MissLogged
         /\ \E k \in DOMAIN readyQueue :
              /\ readyQueue[k].jobId = LastEvent.jobId
              /\ ~IsServerJob(readyQueue[k])
              /\ LastEvent.time > readyQueue[k].absoluteDeadline

(* the run went through several server windows to its end without a miss    *)
(* and the server job was never picked: each one held its whole budget when *)
(* its window ended                                                         *)
ServerExemptFromDeadlineWitness ==
    /\ pc = "done"
    /\ t > 2 * SERVER_PERIOD
    /\ picks = <<>>
    /\ \E k \in DOMAIN jobs : IsServerJob(jobs[k])
    /\ ~\E i \in DOMAIN history : history[i].type = "DEADLINE_MISS"

---------------------------------------------------------------------------
(* Completion of a periodic job *)

EventsOf(type, id) == {i \in DOMAIN history : history[i].type = type /\ history[i].jobId = id}

InReady(id) == \E k \in DOMAIN readyQueue : readyQueue[k].jobId = id

(* the job ran in the last tick with 1 left of its remaining *)
CompletedInLastTick(j) == RanInLastTick(j) /\ j.remainingExecutionTime = 1

FinishLoggedInLastTick(j) ==
    \E i \in DOMAIN LastTickEvents :
        /\ LastTickEvents[i].type = "Finish"
        /\ LastTickEvents[i].jobId = j.jobId

(* C30: a periodic job gets a Finish event with time f exactly when its     *)
(* remaining reaches 0 during tick f - 1; it then has wcet Running events,  *)
(* all in [arrival, f - 1] and the last one at f - 1, has left the ready    *)
(* queue in tick f - 1 and has one Finish event.  The remaining of a job is *)
(* never negative and a Running event takes exactly 1 from it.              *)
PeriodicCompletion ==
    LET rq == atPick.rq
    IN  /\ \A k \in DOMAIN readyQueue : readyQueue[k].remainingExecutionTime >= 0
        /\ \A k \in DOMAIN rq :
             IsDeadlineJob(rq[k]) =>
               LET j == rq[k]
                   runs == EventsOf("Running", j.jobId)
                   fins == EventsOf("Finish", j.jobId)
               IN  /\ FinishLoggedInLastTick(j) <=> CompletedInLastTick(j)
                   /\ CompletedInLastTick(j) =>
                        /\ ~InReady(j.jobId)
                        /\ Cardinality(fins) = 1
                        /\ \A i \in fins : history[i].time = atPick.t + 1
                        /\ Cardinality(runs) = j.task.computationTime
                        /\ \A i \in runs :
                             /\ history[i].time >= j.arrivalTime
                             /\ history[i].time <= atPick.t
                        /\ \E i \in runs : history[i].time = atPick.t
                   /\ ~CompletedInLastTick(j) =>
                        \E m \in DOMAIN readyQueue :
                            /\ readyQueue[m].jobId = j.jobId
                            /\ readyQueue[m].remainingExecutionTime =
                                 j.remainingExecutionTime
                                 - (IF RanInLastTick(j) THEN 1 ELSE 0)
                            /\ readyQueue[m].remainingExecutionTime >= 1

(* a job of two ticks completes after it was kept waiting between its two   *)
(* Running events                                                           *)
PeriodicCompletionWitness ==
    \E k \in DOMAIN atPick.rq :
        LET j == atPick.rq[k]
        IN  /\ IsDeadlineJob(j)
            /\ CompletedInLastTick(j)
            /\ j.task.computationTime = 2
            /\ \E i \in EventsOf("Running", j.jobId) :
                 history[i].time < atPick.t - 1

---------------------------------------------------------------------------
(* Termination *)

(* Inputs for the runs followed to their end: up to two periodic lines of   *)
(* period 3, no aperiodic line or one, any algorithm and policy.            *)
MaxTWcet == 2        \* execution times of these periodic lines are 1..MaxTWcet

TPeriodicLines == {Task(0, "Periodic", 0, e, 3, 3) : e \in 1..MaxTWcet}

TPeriodicInputs ==
    {<<>>} \cup {<<a>> : a \in TPeriodicLines}
          \cup {<<a, b>> : a \in TPeriodicLines, b \in TPeriodicLines}

TAperiodicInputs ==
    {<<>>, <<Task(0, "Aperiodic", 0, 1, 0, 0)>>, <<Task(0, "Aperiodic", 2, 3, 0, 0)>>}

TerminationInit ==
    \E pf \in TPeriodicInputs, af \in TAperiodicInputs :
      \E algo \in Algorithms, policy \in Policies :
        /\ inputFile = <<>>
        /\ Main(pf, af, algo, policy)

(* main() is sequential code: a step that can be taken is taken *)
TerminationSpec == TerminationInit /\ [][Next]_vars /\ WF_vars(Next)

MissesLogged == {i \in DOMAIN history : history[i].type = "DEADLINE_MISS"}

(* the ticks of the slot events of the log, in log order *)
SlotTicks ==
    LET slots == SelectSeq(history, IsSlotEvent)
    IN  [i \in DOMAIN slots |-> slots[i].time]

(* the ticks 0 .. n - 1 in increasing order *)
TicksUpTo(n) == [i \in 1..n |-> i - 1]

RunEnded == pc \in {"done", "aborted"}

TickOrder ==
    /\ hyperperiod \in 1..SAFETY_LIMIT
    /\ t \in 0..hyperperiod
    /\ pc = "run" => MissesLogged = {}
    /\ pc = "done" =>
         /\ MissesLogged = {}
         /\ SlotTicks = TicksUpTo(hyperperiod)
    /\ pc = "aborted" =>
         /\ MissesLogged = {Len(history)}
         /\ history[Len(history)].time = t + 1
         /\ SlotTicks = TicksUpTo(t + 1)

TickSteps ==
    pc = "run" => \/ pc' = "run" /\ t' = t + 1
                  \/ pc' = "aborted" /\ t' = t
                  \/ pc' = "done" /\ t' = t /\ t = hyperperiod

(* C31: every run of the tick loop ends, either after the ticks 0 .. H - 1, *)
(* each simulated once and in increasing order, with no DEADLINE_MISS, or   *)
(* at the first tick whose deadline check fails; the horizon the            *)
(* constructor computed is a number of 1 .. SAFETY_LIMIT.                   *)
Termination ==
    /\ <>(pc # "run")
    /\ [](pc # "noinput" => TickOrder)
    /\ [][TickSteps]_vars

(* a run that went through all its ticks and a server window boundary *)
TerminationWitness ==
    /\ pc = "done"
    /\ t = hyperperiod
    /\ hyperperiod > SERVER_PERIOD
    /\ \E i \in DOMAIN history : IsServerExec(history[i])
    /\ \E i \in DOMAIN history : history[i].type = "Idle"

---------------------------------------------------------------------------
(* Room for trailing aperiodic work *)

(* the run went through its horizon without a miss, the horizon not capped *)
EndedUncapped == pc = "done" /\ hyperperiod < SAFETY_LIMIT /\ ~MissLogged

Arrived(task) ==
    \E i \in DOMAIN history :
        /\ history[i].type = "AperiodicArrival"
        /\ history[i].taskId = task.id
        /\ history[i].time = task.releaseTime

(* C32 as stated: in a run that ends without a DEADLINE_MISS and with a     *)
(* horizon below SAFETY_LIMIT, every aperiodic job that arrived has         *)
(* completed and left the aperiodic queue before the horizon.               *)
AperiodicWorkCompletes ==
    EndedUncapped => aperiodicQueue = <<>>

(* C32: in a run that ends without a DEADLINE_MISS and with a horizon below *)
(* SAFETY_LIMIT, every aperiodic task has release + wcet + BUFFER within    *)
(* the horizon and its job has arrived; a job that is still pending at the  *)
(* horizon saw no Idle tick from its arrival on (the processor was busy in  *)
(* every tick left to it).                                                  *)
AperiodicRoom ==
    EndedUncapped =>
      /\ \A k \in DOMAIN aperiodicTasks :
           /\ aperiodicTasks[k].releaseTime + aperiodicTasks[k].computationTime + BUFFER
                <= hyperperiod
           /\ Arrived(aperiodicTasks[k])
      /\ \A k \in DOMAIN aperiodicQueue :
           \A i \in DOMAIN history :
               history[i].type = "Idle" => history[i].time < aperiodicQueue[k].arrivalTime

(* the run ended without a miss and the aperiodic job is still pending: the *)
(* periodic jobs took every tick after its arrival                          *)
AperiodicRoomWitness ==
    /\ EndedUncapped
    /\ aperiodicQueue # <<>>
    /\ aperiodicQueue[1].remainingExecutionTime = aperiodicQueue[1].task.computationTime
    /\ hyperperiod >= aperiodicQueue[1].arrivalTime + BUFFER

---------------------------------------------------------------------------
(* Server period in the horizon *)

(* C33: when the policy is Polling or Deferrable and the horizon is below   *)
(* SAFETY_LIMIT, the horizon is a multiple of SERVER_PERIOD: the LCM is     *)
(* taken over the periodic set with the server task in it.                  *)
ServerPeriodInHorizon ==
    (pc # "noinput" /\ SynthesizesServer(serverPolicy) /\ hyperperiod < SAFETY_LIMIT) =>
        hyperperiod % SERVER_PERIOD = 0

---------------------------------------------------------------------------
(* Arrivals.  Inputs with released-late periodic lines "P r e p" and up to  *)
(* two aperiodic lines, which may share their release.                      *)

MaxPRelease == 1     \* releases of these periodic lines are 0..MaxPRelease

OffsetPeriodicLines ==
    {Task(0, "Periodic", r, 1, p, p) : r \in 0..MaxPRelease, p \in {2, 3}}

OffsetPeriodicInputs ==
    {<<>>} \cup {<<a>> : a \in OffsetPeriodicLines}
          \cup {<<a, b>> : a \in OffsetPeriodicLines, b \in OffsetPeriodicLines}

OffsetAperiodicLines == {Task(0, "Aperiodic", r, 1, 0, 0) : r \in {0, 1}}

OffsetAperiodicInputs ==
    {<<>>} \cup {<<a>> : a \in OffsetAperiodicLines}
          \cup {<<a, b>> : a \in OffsetAperiodicLines, b \in OffsetAperiodicLines}

ArrivalInit ==
    \E pf \in OffsetPeriodicInputs, af \in OffsetAperiodicInputs :
      \E algo \in {"RM", "EDF"}, policy \in Policies :
        /\ inputFile = <<>>
        /\ Main(pf, af, algo, policy)

ArrivalSpec == ArrivalInit /\ [][Next]_vars

(* the tasks that are due at tick now, in the order of the task vectors *)
DueAt(now) ==
    SelectSeq(periodicTasks,
              LAMBDA task : now >= task.releaseTime
                            /\ (now - task.releaseTime) % task.period = 0)
    \o SelectSeq(aperiodicTasks, LAMBDA task : now = task.releaseTime)

(* the jobs constructed at tick now, in the order of their construction *)
CreatedAt(now) == SelectSeq(jobs, LAMBDA j : j.arrivalTime = now)

ArrivalEventsAt(now) ==
    SelectSeq(history, LAMBDA e : e.type = "AperiodicArrival" /\ e.time = now)

(* C34: the jobs created at a tick t of the run are one job for each        *)
(* periodic or server task with t >= release and (t - release) mod period   *)
(* = 0 and one job for each aperiodic task with t = release, in input order *)
(* (periodic tasks, the server task, aperiodic tasks); each aperiodic one   *)
(* comes with one AperiodicArrival event at t; job ids increase strictly    *)
(* and are never reused; a new job has remaining = wcet and absolute        *)
(* deadline = t + relative deadline.                                        *)
ArrivalsContract ==
    atPick.t >= 0 =>
      LET now == atPick.t
          due == DueAt(now)
          new == CreatedAt(now)
          events == ArrivalEventsAt(now)
          aperiodic == SelectSeq(new, LAMBDA j : j.task.type = "Aperiodic")
      IN  /\ Len(new) = Len(due)
          /\ \A i \in DOMAIN new :
               /\ new[i].task = due[i]
               /\ new[i].remainingExecutionTime = due[i].computationTime
               /\ new[i].absoluteDeadline = now + due[i].relativeDeadline
          /\ \A i \in 1..(Len(jobs) - 1) : jobs[i].jobId < jobs[i + 1].jobId
          /\ jobs # <<>> => jobs[Len(jobs)].jobId < jobCounter
          /\ Len(events) = Len(aperiodic)
          /\ \A i \in DOMAIN events :
               /\ events[i].jobId = aperiodic[i].jobId
               /\ events[i].taskId = aperiodic[i].task.id

(* at a tick past 0 a periodic task released late and two aperiodic tasks   *)
(* each get their job, while another periodic task and the server task are  *)
(* not due                                                                  *)
ArrivalsContractWitness ==
    /\ atPick.t > 0
    /\ Len(CreatedAt(atPick.t)) = 3
    /\ Len(ArrivalEventsAt(atPick.t)) = 2
    /\ CreatedAt(atPick.t)[1].task.releaseTime > 0
    /\ Len(periodicTasks) = 3
    /\ \E k \in DOMAIN jobs : IsServerJob(jobs[k])

---------------------------------------------------------------------------
(* Work conservation *)

IdleInLastTick == \E i \in DOMAIN LastTickEvents : LastTickEvents[i].type = "Idle"

(* C35: under every server policy and priority policy, an Idle event of     *)
(* tick t means that at the execution step of tick t the ready queue held   *)
(* no non-server job and the aperiodic queue was empty; a Deferrable yield  *)
(* with no other ready job skips no pending aperiodic work.                 *)
WorkConserving ==
    IdleInLastTick =>
      /\ OrdinaryJobs(atPick.rq) = <<>>
      /\ atPick.aq = <<>>
      /\ aperiodicQueue = <<>>
      /\ Cardinality({i \in DOMAIN LastTickEvents : IsSlotEvent(LastTickEvents[i])}) = 1

(* the Deferrable server, alone in the ready queue with budget left after   *)
(* it served earlier in the window, yields and the tick is idle             *)
WorkConservingWitness ==
    /\ serverPolicy = "Deferrable"
    /\ IdleInLastTick
    /\ YieldedInLastTick
    /\ Len(atPick.rq) = 1
    /\ atPick.rq[1].remainingExecutionTime < SERVER_CAPACITY
    /\ \E i \in 1..atPick.histLen :
         /\ IsServerExec(history[i])
         /\ WindowOf(history[i].time) = WindowOf(atPick.t)

---------------------------------------------------------------------------
(* Background non-interference.  Two runs are compared through a third: the *)
(* tick loop on the same periodic tasks and algorithm with no aperiodic     *)
(* task, continued for as many ticks as the run at hand.                    *)

IsPeriodicEvent(e) == e.type \in {"Running", "Finish", "DEADLINE_MISS"}

(* (tick, task, arrival of the job, label) of the periodic events of a log, *)
(* the jobs looked up in the list of the jobs constructed                   *)
PeriodicView(hist, made) ==
    LET events == SelectSeq(hist, IsPeriodicEvent)
        ArrivalOf(id) ==
            (made[CHOOSE k \in DOMAIN made : made[k].jobId = id]).arrivalTime
    IN  [i \in DOMAIN events |->
            <<events[i].time, events[i].taskId, ArrivalOf(events[i].jobId), events[i].type>>]

(* one iteration of the loop without server and without aperiodic tasks *)
PeriodicOnlyTick(r, now) ==
    LET pa == PeriodicArrivals(periodicTasks, 1, Cleanup(r.rq, now), r.jc, now)
        sorted == CHOOSE q \in pickNextJob(algorithm, pa.rq, now) : TRUE
        s == NormalExecution([rq |-> sorted, aq |-> <<>>, hist |-> r.hist],
                             IF sorted # <<>> THEN 1 ELSE 0, now)
        dc == DeadlineCheck(s.rq, 1, now)
    IN  [rq |-> dc.rq,
         jc |-> pa.jc,
         made |-> r.made \o SubSeq(pa.rq, Len(r.rq) + 1, Len(pa.rq)),
         hist |-> IF dc.miss # 0
                  THEN Append(s.hist, MissEvent(dc.rq[dc.miss], now))
                  ELSE s.hist,
         missed |-> dc.miss # 0]

(* the loop after the ticks 0 .. n - 1, or after its first miss *)
RECURSIVE PeriodicOnlyRun(_)
PeriodicOnlyRun(n) ==
    IF n = 0
    THEN [rq |-> <<>>, jc |-> 1, made |-> <<>>, hist |-> <<>>, missed |-> FALSE]
    ELSE LET r == PeriodicOnlyRun(n - 1)
         IN  IF r.missed THEN r ELSE PeriodicOnlyTick(r, n - 1)

(* C36: under the Background policy the (tick, task, job arrival, label) of *)
(* the Running, Finish and DEADLINE_MISS events of a run are those of the   *)
(* run on the same periodic tasks and algorithm without aperiodic tasks, on *)
(* every tick both simulate: runs that differ in their aperiodic tasks only *)
(* agree on them, aperiodic work delays and reorders no periodic work.      *)
BackgroundNonInterference ==
    (RunEnded /\ serverPolicy = "Background") =>
        LET ref == PeriodicOnlyRun(TicksSimulated)
        IN  /\ PeriodicView(history, jobs) = PeriodicView(ref.hist, ref.made)
            /\ ref.missed <=> pc = "aborted"

(* a finished run under Background in which an aperiodic job ran in the     *)
(* background in a slot the periodic jobs left free                         *)
BackgroundNonInterferenceWitness ==
    /\ RunEnded
    /\ serverPolicy = "Background"
    /\ \E i \in DOMAIN history : history[i].type = "BackgroundRun"
    /\ Len(PeriodicView(history, jobs)) >= 4
    /\ t >= 3

---------------------------------------------------------------------------
(* No backlog of jobs *)

ConstrainedDeadlines ==
    \A k \in DOMAIN periodicTasks :
        /\ 0 < periodicTasks[k].relativeDeadline
        /\ periodicTasks[k].relativeDeadline <= periodicTasks[k].period

(* the deadline check of tick atPick.t found no miss *)
CheckPassed == atPick.t >= 0 /\ pc \in {"run", "done"}

(* C37: when every task has 0 < relative deadline <= period, after a        *)
(* deadline check of tick t that passes the ready queue holds at most one   *)
(* job of each task other than the server, and each of these jobs has at    *)
(* least one unit left and an absolute deadline of t + 1 or later.          *)
NoBacklog ==
    (ConstrainedDeadlines /\ CheckPassed) =>
        LET q == OrdinaryJobs(readyQueue)
        IN  /\ \A i, k \in DOMAIN q : q[i].task.id = q[k].task.id => i = k
            /\ \A i \in DOMAIN q :
                 /\ q[i].remainingExecutionTime >= 1
                 /\ q[i].absoluteDeadline >= atPick.t + 1

(* after a check that passed, two tasks have a job each in the queue, one   *)
(* of them preempted with its deadline at the very next instant             *)
NoBacklogWitness ==
    /\ ConstrainedDeadlines
    /\ CheckPassed
    /\ Len(OrdinaryJobs(readyQueue)) >= 2
    /\ \E i \in DOMAIN readyQueue :
         /\ ~IsServerJob(readyQueue[i])
         /\ readyQueue[i].absoluteDeadline = atPick.t + 1
         /\ readyQueue[i].startTime # -1

=============================================================================
